---- MODULE Spec2Model ----
(***************************************************************************)
(* Session / identity reconciliation of backend/session_manager.py:        *)
(* the in-memory session store (SESSIONS and the lookup maps), the durable *)
(* Supabase "sessions" table it mirrors to, create_session (find, merge or *)
(* create), the /session/* and /auth/logout endpoints and the conversation *)
(* state mutator update_session_state with its pure helpers.               *)
(*                                                                         *)
(* Text is modelled as a sequence of one-character strings, so that the    *)
(* substring tests of the keyword heuristics are computed as Python does.  *)
(* Timestamps are integers counted in days.                                *)
(***************************************************************************)
EXTENDS Integers, Sequences, FiniteSets, TLC

(***************************************************************************)
(* Bounds of the model.                                                    *)
(***************************************************************************)
MaxTokens == 2        \* session tokens generate_session_token may hand out
MaxMergeTokens == 1   \* session tokens handed out in SpecMerge
MaxSids == 4          \* fresh session_id values (uuid4 or table default)
MaxTicks == 1         \* times the clock advances
MaxCart == 1          \* cart items per session
MaxChat == 2          \* chat entries per session in SpecChat
MaxRecent == 2        \* recent entries per session in SpecSync
MaxSummaryChat == 12  \* chat entries per session in SpecSummary
MaxViews == 52        \* view_product calls per session in SpecView
MaxCardChat == 2      \* chat entries per session in SpecCards
InitialPoints == 10   \* the loyalty balance the user starts with

(***************************************************************************)
(* Program constants.                                                      *)
(***************************************************************************)
Window == 7           \* timedelta(days=7)
SummaryEvery == 6     \* _should_generate_summary
SummaryWindow == 10   \* chat_context[-10:]
StageWindow == 3      \* user_msgs[-3:]
ProductLimit == 3     \* products[:3]
RecentCap == 50       \* view_product cap
SkuRecentCap == 10    \* data["recent"][-10:]

(***************************************************************************)
(* Python's None, for every optional value.                                *)
(***************************************************************************)
NoneV == "None"

Phones == {"p1", "p2"}
Chats == {"c1"}
Channels == {"whatsapp", "kiosk"}
Customers == {"cu1", "cu2"}

\* the optional request fields
OptPhones == Phones \cup {NoneV}
OptChats == Chats \cup {NoneV}
OptCustomers == Customers \cup {NoneV}

\* data/customers.csv as loaded at import: phone_number -> customer_id
CsvCustomers == [p \in {"p1"} |-> "cu1"]

(***************************************************************************)
(* Text.                                                                   *)
(***************************************************************************)
UpperChars == <<"A","B","C","D","E","F","G","H","I","J","K","L","M",
                "N","O","P","Q","R","S","T","U","V","W","X","Y","Z">>
LowerChars == <<"a","b","c","d","e","f","g","h","i","j","k","l","m",
                "n","o","p","q","r","s","t","u","v","w","x","y","z">>

LowerChar(c) ==
    IF \E i \in 1..Len(UpperChars) : UpperChars[i] = c
    THEN LowerChars[CHOOSE i \in 1..Len(UpperChars) : UpperChars[i] = c]
    ELSE c

\* str.lower()
Lower(s) == [i \in 1..Len(s) |-> LowerChar(s[i])]

\* kw in s
Contains(s, kw) ==
    \E i \in 1..(Len(s) - Len(kw) + 1) : SubSeq(s, i, i + Len(kw) - 1) = kw

\* any(kw in s for kw in kws), kws a sequence of keywords
AnyIn(kws, s) == \E k \in 1..Len(kws) : Contains(s, kws[k])

RECURSIVE JoinSpace(_)
\* " ".join(msgs)
JoinSpace(msgs) ==
    IF Len(msgs) = 0 THEN <<>>
    ELSE IF Len(msgs) = 1 THEN msgs[1]
    ELSE msgs[1] \o <<" ">> \o JoinSpace(Tail(msgs))

\* s[-n:]
LastN(s, n) == IF Len(s) <= n THEN s ELSE SubSeq(s, Len(s) - n + 1, Len(s))

\* s[:n]
FirstN(s, n) == IF Len(s) <= n THEN s ELSE SubSeq(s, 1, n)

InSeq(x, s) == \E i \in 1..Len(s) : s[i] = x

PurchaseKeywords ==
    << <<"b","u","y">>, <<"p","u","r","c","h","a","s","e">>,
       <<"c","h","e","c","k","o","u","t">>, <<"o","r","d","e","r">>,
       <<"p","a","y","m","e","n","t">>, <<"p","a","y">> >>
CartKeywords ==
    << <<"a","d","d"," ","t","o"," ","c","a","r","t">>,
       <<"a","d","d"," ","c","a","r","t">>, <<"c","a","r","t">> >>
BrowsingKeywords ==
    << <<"s","h","o","w">>, <<"r","e","c","o","m","m","e","n","d">>,
       <<"l","o","o","k","i","n","g">>, <<"w","a","n","t">>,
       <<"n","e","e","d">>, <<"f","i","n","d">>,
       <<"s","e","a","r","c","h">> >>
ProductKeywords ==
    << <<"s","h","o","e">>, <<"s","h","i","r","t">>, <<"p","a","n","t">>,
       <<"j","a","c","k","e","t">>, <<"s","n","e","a","k","e","r">>,
       <<"t","s","h","i","r","t">>, <<"j","e","a","n","s">>,
       <<"h","o","o","d","i","e">>, <<"r","u","n","n","i","n","g">>,
       <<"c","a","s","u","a","l">>, <<"f","o","r","m","a","l">> >>
ReadyKeywords ==
    << <<"b","u","y">>, <<"p","u","r","c","h","a","s","e">>,
       <<"o","r","d","e","r">>, <<"c","h","e","c","k","o","u","t">>,
       <<"c","a","r","t">>, <<"p","a","y","m","e","n","t">> >>
CompareKeywords ==
    << <<"c","o","m","p","a","r","e">>,
       <<"d","i","f","f","e","r","e","n","c","e">>,
       <<"b","e","t","w","e","e","n">>, <<"b","e","t","t","e","r">> >>

\* The messages the model sends.
MsgBuyShoes == <<"B","u","y"," ","s","h","o","e","s">>
MsgCart == <<"a","d","d"," ","t","o"," ","c","a","r","t">>
MsgShow == <<"s","h","o","w"," ","s","h","i","r","t">>
MsgHi == <<"h","i">>
MsgOk == <<"o","k">>
\* a message that is no string: the JSON number 123
MsgNumber == <<123>>

\* whether message.lower() can be called
IsText(message) == message # MsgNumber

\* _detect_last_action_from_message
DetectLastActionFromMessage(message) ==
    LET m == Lower(message) IN
    IF AnyIn(PurchaseKeywords, m) THEN "purchase_intent"
    ELSE IF AnyIn(CartKeywords, m) THEN "cart_update"
    ELSE IF AnyIn(BrowsingKeywords, m) THEN "browsing"
    ELSE NoneV

\* _should_generate_summary
ShouldGenerateSummary(chat_context) ==
    Len(chat_context) % SummaryEvery = 0 /\ Len(chat_context) >= SummaryEvery

RECURSIVE UserMsgs(_)
\* [msg["message"].lower() for msg in recent if msg.get("sender") == "user"]
UserMsgs(entries) ==
    IF Len(entries) = 0 THEN <<>>
    ELSE (IF entries[1].sender = "user" THEN <<Lower(entries[1].message)>> ELSE <<>>)
         \o UserMsgs(Tail(entries))

RECURSIVE ProductsIn(_, _, _)
\* the nested loop of _generate_simple_summary: msgs outer, keywords inner,
\* started at keyword k of the first message, with acc collected so far
ProductsIn(msgs, k, acc) ==
    IF Len(msgs) = 0 THEN acc
    ELSE IF k > Len(ProductKeywords) THEN ProductsIn(Tail(msgs), 1, acc)
    ELSE IF Contains(msgs[1], ProductKeywords[k]) /\ ~InSeq(ProductKeywords[k], acc)
         THEN ProductsIn(msgs, k + 1, Append(acc, ProductKeywords[k]))
         ELSE ProductsIn(msgs, k + 1, acc)

\* The empty string "" as a summary.
EmptySummary == [empty |-> TRUE]

\* _generate_simple_summary: the text
\*   f"Customer is {stage} - interested in {product_text}. {n} interactions so far."
\* is kept as its three parameters; product_text is ", ".join(products[:3]) + "s".
GenerateSimpleSummary(chat_context) ==
    IF Len(chat_context) < 2 THEN EmptySummary
    ELSE LET user_msgs == UserMsgs(LastN(chat_context, SummaryWindow))
             tail3 == JoinSpace(LastN(user_msgs, StageWindow))
             products == ProductsIn(user_msgs, 1, <<>>)
             stage == IF AnyIn(ReadyKeywords, tail3) THEN "ready to purchase"
                      ELSE IF AnyIn(CompareKeywords, tail3) THEN "comparing options"
                      ELSE "browsing"
         IN IF Len(user_msgs) = 0 THEN EmptySummary
            ELSE [empty |-> FALSE, stage |-> stage,
                  products |-> FirstN(products, ProductLimit),
                  interactions |-> Len(user_msgs)]


(***************************************************************************)
(* State.                                                                  *)
(***************************************************************************)
VARIABLES
    SESSIONS,            \* session_token -> session dict
    PHONE_SESSIONS,      \* phone -> session_token, NoTok when absent
    PHONE_SESSION_IDS,   \* phone -> session_id, NoSid when absent
    PHONE_TO_CUSTOMER,   \* phone -> customer_id, NoneV when absent
    TELEGRAM_SESSIONS,   \* telegram_chat_id -> session_token, NoTok when absent
    TELEGRAM_TO_PHONE,   \* telegram_chat_id -> phone, NoneV when absent
    durable,             \* the Supabase table "sessions": session_token -> row
    supabase_enabled,    \* is_supabase_enabled()
    now,                 \* datetime.utcnow(), in days
    ticks,               \* how often the clock has advanced
    next_token,          \* tokens handed out so far
    next_sid,            \* session ids handed out so far
    resp,                \* the last request and its response
    first_sid,           \* phone -> session_id of the first start-session answer
    QR_TOKEN_STORE,      \* auth_manager: qr_token -> phone, customer_id
    qr_log,              \* every qr_token generated: for whom, by whom, verified how often
    qr_resp,             \* the last answer of verify_qr_token
    points,              \* Redis key user:{user_id}:points of one user
    calls,               \* the loyalty calls in progress, per caller
    settled,             \* points added minus points deducted by the calls that returned
    fulfillment,         \* Redis hashes fulfillment:{order_id}: order -> current_status
    status_index,        \* Redis sets fulfillment:orders:status:{status}
    handler,             \* the request a handler is serving and its place in it
    events               \* what the handlers did, in order

\* the stores of session_manager, and the others
sessionVars == <<SESSIONS, PHONE_SESSIONS, PHONE_SESSION_IDS, PHONE_TO_CUSTOMER,
                 TELEGRAM_SESSIONS, TELEGRAM_TO_PHONE, durable, supabase_enabled,
                 now, ticks, next_token, next_sid, resp, first_sid>>
qrGhosts == <<qr_log, qr_resp>>
redisVars == <<points, calls, settled, fulfillment, status_index>>
timingVars == <<handler, events>>
others == <<QR_TOKEN_STORE, qrGhosts, redisVars, timingVars>>

vars == <<sessionVars, others>>

NoTok == 0
NoSid == 0
Tokens == 1..MaxTokens

\* last_action: None, a detected intent string, or a dict
NoAction == [kind |-> "none"]
IntentAction(v) == [kind |-> "str", value |-> v]
DictAction(type, what, ts) == [kind |-> "dict", type |-> type, what |-> what, timestamp |-> ts]

\* the "data" dict of a new session
DefaultData(channel) ==
    [cart |-> <<>>, recent |-> <<>>, chat_context |-> <<>>,
     last_action |-> NoAction, channels |-> <<channel>>,
     conversation_summary |-> EmptySummary, last_recommended_skus |-> <<>>]

\* session["metadata"]["channels"]: restore_session_from_supabase hands out one
\* dict as both "data" and "metadata" (aliased), create_session two dicts
MetadataChannels(s) == IF s.aliased THEN s.data.channels ELSE s.metadata_channels

SetMetadataChannels(s, chs) ==
    IF s.aliased THEN [s EXCEPT !.data.channels = chs, !.metadata_channels = chs]
    ELSE [s EXCEPT !.metadata_channels = chs]

\* _register_phone_mapping (a phone of the model is its own digits-only form)
RegisterPhoneMapping(p2c, phone, customer_id) ==
    IF phone = NoneV \/ customer_id = NoneV THEN p2c
    ELSE [p2c EXCEPT ![phone] = customer_id]

(***************************************************************************)
(* The durable backend.                                                    *)
(***************************************************************************)
NotFound == [found |-> FALSE]

\* the most recent rows of a phone without the filter status=eq.active
MostRecentOfAnyStatus(rows, phone) ==
    LET act == {t \in DOMAIN rows : rows[t].phone = phone}
    IN {t \in act : \A u \in act : rows[u].last_activity <= rows[t].last_activity}

\* the rows GET /sessions?phone=eq.p&status=eq.active&order=last_activity.desc&limit=1
\* may answer with: an order among equal last_activity is the table's choice
MostRecentActive(rows, phone) ==
    LET act == {t \in DOMAIN rows : rows[t].phone = phone /\ rows[t].status = "active"}
    IN {t \in act : \A u \in act : rows[u].last_activity <= rows[t].last_activity}

\* the session dict restore_session_from_supabase builds from a row
SessionFromRow(r) ==
    [session_id |-> r.session_id, phone |-> r.phone, telegram_chat_id |-> NoneV,
     channel |-> r.channel, user_id |-> NoneV, customer_id |-> r.customer_id,
     data |-> r.metadata, metadata_channels |-> r.metadata.channels,
     aliased |-> TRUE, created_at |-> r.created_at, updated_at |-> r.last_activity,
     is_active |-> (r.status = "active"), expires_at |-> r.expires_at,
     customer_profile |-> NoneV, session_token |-> r.session_token]

\* restore_session_from_supabase without the check of expires_at
RestoreSessionFromSupabaseUnexpired(rows, phone, ok) ==
    IF ~supabase_enabled \/ phone = NoneV \/ ~ok THEN {NotFound}
    ELSE IF MostRecentActive(rows, phone) = {} THEN {NotFound}
    ELSE {[found |-> TRUE, session |-> SessionFromRow(rows[t])] :
          t \in MostRecentActive(rows, phone)}

\* restore_session_from_supabase: the answers it may give (ok: the GET succeeded)
RestoreSessionFromSupabase(rows, phone, ok) ==
    IF ~supabase_enabled \/ phone = NoneV \/ ~ok THEN {NotFound}
    ELSE IF MostRecentActive(rows, phone) = {} THEN {NotFound}
    ELSE {IF now > rows[t].expires_at THEN NotFound
          ELSE [found |-> TRUE, session |-> SessionFromRow(rows[t])] :
          t \in MostRecentActive(rows, phone)}

\* save_session_to_supabase with a POST that fails after the table took the row
SaveSessionToSupabaseApplied(rows, token, session, sid, ok) ==
    IF ~supabase_enabled \/ session.customer_id = NoneV \/ session.phone = NoneV
    THEN rows
    ELSE (token :> [session_id |-> sid, customer_id |-> session.customer_id,
                    phone |-> session.phone, session_token |-> token,
                    channel |-> session.channel, status |-> "active",
                    created_at |-> session.created_at, last_activity |-> now,
                    expires_at |-> now + Window, metadata |-> session.data]) @@ rows

\* save_session_to_supabase: the table after the POST (ok: the POST succeeded);
\* the row's session_id is the table's default, sid
SaveSessionToSupabase(rows, token, session, sid, ok) ==
    IF ~supabase_enabled \/ session.customer_id = NoneV \/ session.phone = NoneV \/ ~ok
    THEN rows
    ELSE (token :> [session_id |-> sid, customer_id |-> session.customer_id,
                    phone |-> session.phone, session_token |-> token,
                    channel |-> session.channel, status |-> "active",
                    created_at |-> session.created_at, last_activity |-> now,
                    expires_at |-> now + Window, metadata |-> session.data]) @@ rows

\* whether save_session_to_supabase inserts a row
SaveInserts(session, ok) ==
    supabase_enabled /\ session.customer_id # NoneV /\ session.phone # NoneV /\ ok

\* _update_metadata_to_supabase: PATCH ?session_token=eq.token
UpdateMetadataToSupabase(rows, token, session, ok) ==
    IF ~supabase_enabled \/ ~ok \/ token \notin DOMAIN rows THEN rows
    ELSE [rows EXCEPT ![token].metadata = session.data, ![token].last_activity = now]

\* update_session_expiry_in_supabase: PATCH ?session_id=eq.session_id
UpdateSessionExpiryInSupabase(rows, session_id, ok) ==
    IF ~supabase_enabled \/ ~ok THEN rows
    ELSE [t \in DOMAIN rows |->
            IF rows[t].session_id = session_id
            THEN [rows[t] EXCEPT !.last_activity = now, !.expires_at = now + Window]
            ELSE rows[t]]

\* delete_session_from_supabase: PATCH ?session_id=eq.session_id
DeleteSessionFromSupabase(rows, session_id, ok) ==
    IF ~supabase_enabled \/ ~ok THEN rows
    ELSE [t \in DOMAIN rows |->
            IF rows[t].session_id = session_id
            THEN [rows[t] EXCEPT !.status = "logged_out", !.last_activity = now]
            ELSE rows[t]]


(***************************************************************************)
(* create_session.                                                         *)
(***************************************************************************)
\* a customer record handed to create_session as customer_profile, kept as
\* its customer_id; NoProfile is customer_profile=None
NoProfile == [present |-> FALSE]
Profile(c) == [present |-> TRUE, customer_id |-> c]

\* step 1 of create_session: the token the lookup maps give, NoTok if none
ExistingToken(phone, tg) ==
    IF phone # NoneV /\ PHONE_SESSIONS[phone] # NoTok THEN PHONE_SESSIONS[phone]
    ELSE IF tg # NoneV /\ TELEGRAM_SESSIONS[tg] # NoTok THEN TELEGRAM_SESSIONS[tg]
    ELSE NoTok

\* existing_session is taken from memory
InMemory(phone, tg) == ExistingToken(phone, tg) \in DOMAIN SESSIONS

\* step 2 of create_session: whether the Supabase answer is taken as existing_session
TakenFromSupabase(phone, tg, restored) ==
    /\ ~InMemory(phone, tg)
    /\ phone # NoneV
    /\ supabase_enabled
    /\ restored.found
    /\ restored.session.is_active
    /\ now <= restored.session.expires_at

\* the channel history after the merge
MergeChannels(s, channel) ==
    IF InSeq(channel, MetadataChannels(s)) THEN s
    ELSE SetMetadataChannels(s, Append(MetadataChannels(s), channel))

\* the merge of customer_profile into the existing session
MergeProfile(s, profile) ==
    IF ~profile.present THEN s
    ELSE IF profile.customer_id = NoneV THEN [s EXCEPT !.customer_profile = profile]
    ELSE [s EXCEPT !.customer_profile = profile,
                   !.customer_id = profile.customer_id,
                   !.user_id = IF s.user_id = NoneV THEN profile.customer_id ELSE s.user_id]

\* the merge of customer_id that only fills an empty customer_id
MergeCustomerIdIfEmpty(s, customer_id) ==
    IF customer_id = NoneV \/ s.customer_id # NoneV THEN s
    ELSE [s EXCEPT !.customer_id = customer_id,
                   !.user_id = IF s.user_id = NoneV THEN customer_id ELSE s.user_id]

\* the merge of customer_id into the existing session
MergeCustomerId(s, customer_id) ==
    IF customer_id = NoneV THEN s
    ELSE [s EXCEPT !.customer_id = customer_id,
                   !.user_id = IF s.user_id = NoneV THEN customer_id ELSE s.user_id]

\* whether the merge links telegram_chat_id to the session
LinksTelegram(s, tg) == tg # NoneV /\ s.telegram_chat_id # tg

\* the existing session as create_session leaves it
MergedSession(s, tg, channel, customer_id, profile) ==
    LET s1 == [s EXCEPT !.channel = channel, !.is_active = TRUE,
                        !.updated_at = now, !.expires_at = now + Window]
        s2 == MergeChannels(s1, channel)
        s3 == IF LinksTelegram(s, tg) THEN [s2 EXCEPT !.telegram_chat_id = tg] ELSE s2
        s4 == MergeProfile(s3, profile)
    IN MergeCustomerId(s4, customer_id)

\* create_session when existing_session was found: the stores after it
MergeExisting(token, s, src, phone, tg, channel, customer_id, profile) ==
    [S |-> (token :> MergedSession(s, tg, channel, customer_id, profile)) @@ SESSIONS,
     PS |-> IF phone # NoneV /\ PHONE_SESSIONS[phone] = NoTok
            THEN [PHONE_SESSIONS EXCEPT ![phone] = token] ELSE PHONE_SESSIONS,
     PSI |-> PHONE_SESSION_IDS,
     P2C |-> IF profile.present
             THEN RegisterPhoneMapping(PHONE_TO_CUSTOMER, phone, profile.customer_id)
             ELSE PHONE_TO_CUSTOMER,
     TS |-> IF LinksTelegram(s, tg)
            THEN [TELEGRAM_SESSIONS EXCEPT ![tg] = token] ELSE TELEGRAM_SESSIONS,
     T2P |-> IF LinksTelegram(s, tg) /\ phone # NoneV
             THEN [TELEGRAM_TO_PHONE EXCEPT ![tg] = phone] ELSE TELEGRAM_TO_PHONE,
     D |-> durable, ntok |-> next_token, nsid |-> next_sid,
     token |-> token, found |-> src, fits |-> TRUE]

\* the customer_id a new session gets: the argument, the profile's, the phone
\* mapping's, or the one ensure_customer_record answers (ensured)
ResolveCustomerId(phone, customer_id, profile, ensured) ==
    LET c1 == IF profile.present /\ customer_id = NoneV THEN profile.customer_id
              ELSE customer_id
    IN IF c1 # NoneV \/ phone = NoneV THEN c1
       ELSE IF PHONE_TO_CUSTOMER[phone] # NoneV THEN PHONE_TO_CUSTOMER[phone]
       ELSE ensured

\* create_session when nothing was found: the stores after it
CreateNew(phone, tg, channel, user_id, customer_id, profile, ensured, save_ok) ==
    LET token == next_token + 1
        reuse == phone # NoneV /\ PHONE_SESSION_IDS[phone] # NoSid
        session_id == IF reuse THEN PHONE_SESSION_IDS[phone] ELSE next_sid + 1
        nsid1 == IF reuse THEN next_sid ELSE next_sid + 1
        cid == ResolveCustomerId(phone, customer_id, profile, ensured)
        session == [session_id |-> session_id, phone |-> phone,
                    telegram_chat_id |-> tg, channel |-> channel,
                    user_id |-> IF user_id # NoneV THEN user_id ELSE cid,
                    customer_id |-> cid, data |-> DefaultData(channel),
                    metadata_channels |-> <<channel>>, aliased |-> FALSE,
                    created_at |-> now, updated_at |-> now, is_active |-> TRUE,
                    expires_at |-> now + Window, customer_profile |-> profile,
                    session_token |-> NoTok]
        inserts == SaveInserts(session, save_ok)
    IN [S |-> (token :> session) @@ SESSIONS,
        PS |-> IF phone # NoneV THEN [PHONE_SESSIONS EXCEPT ![phone] = token]
               ELSE PHONE_SESSIONS,
        PSI |-> IF phone # NoneV THEN [PHONE_SESSION_IDS EXCEPT ![phone] = session_id]
                ELSE PHONE_SESSION_IDS,
        P2C |-> RegisterPhoneMapping(PHONE_TO_CUSTOMER, phone, cid),
        TS |-> IF tg # NoneV THEN [TELEGRAM_SESSIONS EXCEPT ![tg] = token]
               ELSE TELEGRAM_SESSIONS,
        T2P |-> IF tg # NoneV /\ phone # NoneV
                THEN [TELEGRAM_TO_PHONE EXCEPT ![tg] = phone] ELSE TELEGRAM_TO_PHONE,
        D |-> SaveSessionToSupabase(durable, token, session, nsid1 + 1, save_ok),
        ntok |-> token,
        nsid |-> IF inserts THEN nsid1 + 1 ELSE nsid1,
        token |-> token, found |-> "new",
        fits |-> token <= MaxTokens /\ (IF inserts THEN nsid1 + 1 ELSE nsid1) <= MaxSids]

\* create_session(phone, telegram_chat_id, channel, user_id, customer_id,
\* customer_profile): the stores after it, the token it returns and where it
\* found the session. restored is the answer of restore_session_from_supabase,
\* ensured the one of ensure_customer_record, save_ok whether the insert succeeds.
CreateSession(phone, tg, channel, user_id, customer_id, profile, restored, ensured, save_ok) ==
    IF InMemory(phone, tg)
    THEN MergeExisting(ExistingToken(phone, tg), SESSIONS[ExistingToken(phone, tg)],
                       "memory", phone, tg, channel, customer_id, profile)
    ELSE IF TakenFromSupabase(phone, tg, restored)
    THEN MergeExisting(restored.session.session_token, restored.session,
                       "supabase", phone, tg, channel, customer_id, profile)
    ELSE CreateNew(phone, tg, channel, user_id, customer_id, profile, ensured, save_ok)


(***************************************************************************)
(* update_session_state.                                                   *)
(***************************************************************************)
\* payload.get("metadata"): None, or a dict kept as its "cards" list; a card is
\* a dict kept as its sku, SKU and product_id entries
NoMetadata == [present |-> FALSE]
Metadata(cards) == [present |-> TRUE, cards |-> cards]
Card(sku, SKU, product_id) == [sku |-> sku, SKU |-> SKU, product_id |-> product_id]

\* card.get("sku") or card.get("SKU") or card.get("product_id")
CardSku(card) ==
    IF card.sku # NoneV THEN card.sku
    ELSE IF card.SKU # NoneV THEN card.SKU
    ELSE card.product_id

RECURSIVE ExtractSkus(_)
\* the SKUs of the cards, in card order, cards without one skipped
ExtractSkus(cards) ==
    IF Len(cards) = 0 THEN <<>>
    ELSE (IF CardSku(cards[1]) # NoneV THEN <<CardSku(cards[1])>> ELSE <<>>)
         \o ExtractSkus(Tail(cards))

\* the entries of data["recent"]: a dict of view_product, or a plain SKU string
ViewEntry(product, ts) == [kind |-> "view", product |-> product, viewed_at |-> ts]
SkuEntry(sku) == [kind |-> "sku", sku |-> sku]

RECURSIVE AddUniqueSkus(_, _)
\* for sku in skus: if sku not in data["recent"]: data["recent"].append(sku)
AddUniqueSkus(recent, skus) ==
    IF Len(skus) = 0 THEN recent
    ELSE AddUniqueSkus(IF InSeq(SkuEntry(skus[1]), recent) THEN recent
                       ELSE Append(recent, SkuEntry(skus[1])),
                       Tail(skus))

ChatEntry(sender, message, ts, metadata) ==
    [sender |-> sender, message |-> message, timestamp |-> ts, metadata |-> metadata]

\* the duplicate test of chat_message against the last entry
IsDuplicate(chat_context, sender, message) ==
    /\ Len(chat_context) > 0
    /\ chat_context[Len(chat_context)].sender = sender
    /\ chat_context[Len(chat_context)].message = message

\* chat_message without the duplicate test: every message is appended
RecordChatAppend(chat_context, sender, message, metadata) ==
    Append(chat_context, ChatEntry(sender, message, now, metadata))

\* chat_message: the history after the duplicate test
RecordChat(chat_context, sender, message, metadata) ==
    IF IsDuplicate(chat_context, sender, message)
    THEN [chat_context EXCEPT
            ![Len(chat_context)].timestamp = now,
            ![Len(chat_context)].metadata =
                IF metadata.present THEN metadata ELSE @]
    ELSE Append(chat_context, ChatEntry(sender, message, now, metadata))

\* ENHANCEMENT 1: data["last_action"] after intent detection
DetectedAction(last_action, sender, message) ==
    IF sender = "user" /\ Len(message) > 0
       /\ DetectLastActionFromMessage(message) # NoneV
    THEN IntentAction(DetectLastActionFromMessage(message))
    ELSE last_action

\* "Update last_action timestamp": anything that is not a dict is replaced
StampedAction(last_action, sender) ==
    IF last_action.kind = "dict" THEN last_action
    ELSE DictAction("chat_message", sender, now)

\* ENHANCEMENT 2: the SKUs of an agent message's cards, <<>> if none apply
CardSkus(sender, metadata) ==
    IF sender = "agent" /\ metadata.present THEN ExtractSkus(metadata.cards) ELSE <<>>

\* the summary after the call if an empty regenerated text were stored too
NextSummaryAlways(summary, chat_context) ==
    IF ShouldGenerateSummary(chat_context) THEN GenerateSimpleSummary(chat_context)
    ELSE summary

\* ENHANCEMENT 3: the summary after the call
NextSummary(summary, chat_context) ==
    IF ShouldGenerateSummary(chat_context)
       /\ ~GenerateSimpleSummary(chat_context).empty
    THEN GenerateSimpleSummary(chat_context)
    ELSE summary

\* recent after the SKUs of the cards were added, were it left uncut
RecentWithSkusUncut(recent, skus) == AddUniqueSkus(recent, skus)

\* data["recent"] after the SKUs of the cards were added: the last 10 entries
RecentWithSkus(recent, skus) == LastN(AddUniqueSkus(recent, skus), SkuRecentCap)

\* the chat_message branch on data
ChatMessageData(data, sender, message, metadata) ==
    LET ctx == RecordChat(data.chat_context, sender, message, metadata)
        skus == CardSkus(sender, metadata)
    IN [data EXCEPT
          !.chat_context = ctx,
          !.last_action = StampedAction(DetectedAction(@, sender, message), sender),
          !.last_recommended_skus = IF Len(skus) > 0 THEN skus ELSE @,
          !.recent = IF Len(skus) > 0
                     THEN RecentWithSkus(@, skus) ELSE @,
          !.conversation_summary = NextSummary(@, ctx)]

\* the add_to_cart branch on data
AddToCartData(data, item) ==
    [data EXCEPT !.cart = Append(@, item),
                 !.last_action = DictAction("add_to_cart", item, now)]

\* the view_product branch without the cut to the first 50 entries
ViewProductDataUncut(data, product) ==
    [data EXCEPT !.recent = <<ViewEntry(product, now)>> \o @,
                 !.last_action = DictAction("view_product", product, now)]

\* the view_product branch on data
ViewProductData(data, product) ==
    [data EXCEPT !.recent = FirstN(<<ViewEntry(product, now)>> \o @, RecentCap),
                 !.last_action = DictAction("view_product", product, now)]

\* the payloads of /session/update; an absent key is NoneV (has_message for
\* the message, which is text)
CartPayload(item) == [item |-> item]
ViewPayload(product) == [product |-> product]
ChatPayload(has_message, sender, message, metadata) ==
    [has_message |-> has_message, sender |-> sender, message |-> message,
     metadata |-> metadata]
UserPayload(user_id) == [user_id |-> user_id]

UpdateActions == {"add_to_cart", "view_product", "chat_message", "set_user", "foo"}

\* payload.get("sender", "user")
SenderOf(payload) == IF payload.sender = NoneV THEN "user" ELSE payload.sender

\* whether the chat_message branch raises an unhandled exception, the
\* AttributeError of message.lower(): in ENHANCEMENT 1 for a user message that
\* is no string, in ENHANCEMENT 3 when the summary is due and one of the last
\* 10 entries is such a message
ChatRaises(data, sender, message, metadata) ==
    \/ sender = "user" /\ Len(message) > 0 /\ ~IsText(message)
    \/ LET ctx == RecordChat(data.chat_context, sender, message, metadata)
       IN /\ ShouldGenerateSummary(ctx)
          /\ \E i \in 1..Len(ctx) :
                /\ i > Len(ctx) - SummaryWindow
                /\ ctx[i].sender = "user"
                /\ ~IsText(ctx[i].message)

\* the data the chat_message branch leaves behind when it raises: what it had
\* assigned before the exception
ChatMessageDataRaised(data, sender, message, metadata) ==
    LET ctx == RecordChat(data.chat_context, sender, message, metadata)
        skus == CardSkus(sender, metadata)
    IN IF sender = "user" /\ Len(message) > 0 /\ ~IsText(message)
       THEN [data EXCEPT !.chat_context = ctx]
       ELSE [data EXCEPT
               !.chat_context = ctx,
               !.last_action = DetectedAction(@, sender, message),
               !.last_recommended_skus = IF Len(skus) > 0 THEN skus ELSE @,
               !.recent = IF Len(skus) > 0 THEN RecentWithSkus(@, skus) ELSE @]

\* the status update_session_state ends with: 404 of get_session, 400 of a
\* missing field or an unsupported action, 500 of an unhandled exception,
\* else 200
UpdateStatus(token, action, payload) ==
    IF token \notin DOMAIN SESSIONS THEN 404
    ELSE IF action = "add_to_cart" THEN (IF payload.item = NoneV THEN 400 ELSE 200)
    ELSE IF action = "view_product" THEN (IF payload.product = NoneV THEN 400 ELSE 200)
    ELSE IF action = "chat_message"
    THEN (IF ~payload.has_message THEN 400
          ELSE IF ChatRaises(SESSIONS[token].data, SenderOf(payload), payload.message,
                             payload.metadata) THEN 500
          ELSE 200)
    ELSE IF action = "set_user" THEN (IF payload.user_id = NoneV THEN 400 ELSE 200)
    ELSE 400

\* the session update_session_state returns when it succeeds
UpdatedSession(s, action, payload) ==
    IF action = "add_to_cart"
    THEN [s EXCEPT !.data = AddToCartData(@, payload.item), !.updated_at = now]
    ELSE IF action = "view_product"
    THEN [s EXCEPT !.data = ViewProductData(@, payload.product), !.updated_at = now]
    ELSE IF action = "chat_message"
    THEN [s EXCEPT !.data = ChatMessageData(@, SenderOf(payload), payload.message,
                                            payload.metadata),
                   !.updated_at = now]
    ELSE [s EXCEPT !.user_id = payload.user_id, !.updated_at = now]

\* whether update_session_state calls _update_metadata_to_supabase
SyncsMetadata(action) == action = "chat_message"

RECURSIVE DedupeFrom(_, _)
\* the loop of _dedupe_chat_context: cleaned so far, entries to go
DedupeFrom(cleaned, rest) ==
    IF Len(rest) = 0 THEN cleaned
    ELSE IF rest[1].sender = cleaned[Len(cleaned)].sender
            /\ rest[1].message = cleaned[Len(cleaned)].message
         THEN DedupeFrom(cleaned, Tail(rest))
         ELSE DedupeFrom(Append(cleaned, rest[1]), Tail(rest))

\* _dedupe_chat_context
DedupeChatContext(s) ==
    IF Len(s.data.chat_context) < 2 THEN s
    ELSE [s EXCEPT !.data.chat_context = DedupeFrom(<<@[1]>>, Tail(@))]


(***************************************************************************)
(* The process: construction, the endpoints, the clock, a restart.         *)
(***************************************************************************)
\* the last request (its endpoint) and its response: the status, the token
\* answered and where the session was found ("memory", "supabase", "new")
Resp(op, status, token, found) ==
    [op |-> op, status |-> status, token |-> token, found |-> found]

NoResp == Resp("none", 0, NoTok, "none")

(***************************************************************************)
(* The other stores: the QR tokens of auth_manager, the loyalty points and *)
(* the fulfillment records in Redis, and the handler in progress.          *)
(***************************************************************************)
\* verify_qr_token's answer (valid, customer_info) for a qr_token
QrResp(valid, qr_token, phone, customer_id) ==
    [valid |-> valid, qr_token |-> qr_token, phone |-> phone, customer_id |-> customer_id]

NoQrResp == QrResp(FALSE, 0, NoneV, NoneV)

\* the callers of the loyalty functions, and a caller outside a call
Callers == {"a", "b"}
NoCall == [op |-> "none", pc |-> "idle", amount |-> 0, current_points |-> 0, made |-> 0]

\* the orders and the statuses of the fulfillment agent
Orders == {"o1", "o2"}
Statuses == {"PROCESSING", "SHIPPED", "DELIVERED"}
NoStatus == "absent"

\* no request is being served
NoRequest == [op |-> "none", pc |-> "idle", backend_calls |-> 0]

\* the module-level dicts as the import of session_manager leaves them
Init ==
    /\ SESSIONS = <<>>
    /\ PHONE_SESSIONS = [p \in Phones |-> NoTok]
    /\ PHONE_SESSION_IDS = [p \in Phones |-> NoSid]
    /\ PHONE_TO_CUSTOMER =
          [p \in Phones |-> IF p \in DOMAIN CsvCustomers THEN CsvCustomers[p] ELSE NoneV]
    /\ TELEGRAM_SESSIONS = [c \in Chats |-> NoTok]
    /\ TELEGRAM_TO_PHONE = [c \in Chats |-> NoneV]
    /\ durable = <<>>
    /\ supabase_enabled \in BOOLEAN
    /\ now = 0
    /\ ticks = 0
    /\ next_token = 0
    /\ next_sid = 0
    /\ resp = NoResp
    /\ first_sid = [p \in Phones |-> NoSid]
    /\ QR_TOKEN_STORE = <<>>
    /\ qr_log = <<>>
    /\ qr_resp = NoQrResp
    /\ points = InitialPoints
    /\ calls = [c \in Callers |-> NoCall]
    /\ settled = 0
    /\ fulfillment = [o \in Orders |-> NoStatus]
    /\ status_index = [st \in Statuses |-> {}]
    /\ handler = NoRequest
    /\ events = <<>>

\* the stores after create_session
Store(R) ==
    /\ PHONE_SESSIONS' = R.PS
    /\ PHONE_SESSION_IDS' = R.PSI
    /\ TELEGRAM_SESSIONS' = R.TS
    /\ TELEGRAM_TO_PHONE' = R.T2P
    /\ durable' = R.D
    /\ next_token' = R.ntok
    /\ next_sid' = R.nsid

\* session_start: the customer_id handed to create_session
StartCustomerId(phone, customer_id) ==
    IF customer_id # NoneV \/ phone = NoneV THEN customer_id
    ELSE IF PHONE_TO_CUSTOMER[phone] # NoneV THEN PHONE_TO_CUSTOMER[phone]
    ELSE IF phone \in DOMAIN CsvCustomers THEN CsvCustomers[phone]
    ELSE NoneV

\* session_start: session['session_token'] = token unless it is set
WithTokenField(s, token) ==
    IF s.session_token = NoTok THEN [s EXCEPT !.session_token = token] ELSE s

\* POST /session/start past the check of the identifiers
SessionStartUnchecked(phone, tg, channel, user_id, customer_id, restored, ensured, save_ok) ==
    LET cid == StartCustomerId(phone, customer_id)
        R == CreateSession(phone, tg, channel, user_id, cid, NoProfile,
                           restored, ensured, save_ok)
        session == WithTokenField(DedupeChatContext(R.S[R.token]), R.token)
    IN /\ R.fits
       /\ SESSIONS' = [R.S EXCEPT ![R.token] = session]
       /\ PHONE_TO_CUSTOMER' =
             IF customer_id = NoneV THEN RegisterPhoneMapping(R.P2C, phone, cid)
             ELSE R.P2C
       /\ Store(R)
       /\ resp' = Resp("start", 200, R.token, R.found)
       /\ first_sid' = IF phone # NoneV /\ first_sid[phone] = NoSid
                       THEN [first_sid EXCEPT ![phone] = session.session_id]
                       ELSE first_sid
       /\ UNCHANGED <<supabase_enabled, others, now, ticks>>

\* POST /session/start, with restored the answer of restore_session_from_supabase
SessionStartWith(phone, tg, channel, user_id, customer_id, restored, ensured, save_ok) ==
    IF phone = NoneV /\ tg = NoneV
    THEN /\ resp' = Resp("start", 400, NoTok, "none")
         /\ UNCHANGED <<SESSIONS, PHONE_SESSIONS, PHONE_SESSION_IDS, PHONE_TO_CUSTOMER,
                        TELEGRAM_SESSIONS, TELEGRAM_TO_PHONE, durable, supabase_enabled, others,
                        now, ticks, next_token, next_sid, first_sid>>
    ELSE SessionStartUnchecked(phone, tg, channel, user_id, customer_id, restored,
                               ensured, save_ok)

\* POST /session/start
SessionStart(phone, tg, channel, user_id, customer_id, get_ok, ensured, save_ok) ==
    \E restored \in RestoreSessionFromSupabase(durable, phone, get_ok) :
       SessionStartWith(phone, tg, channel, user_id, customer_id, restored, ensured,
                        save_ok)

\* POST /session/login, with customer the customer_id of the record
\* ensure_customer answers
SessionLogin(phone, channel, customer, get_ok, save_ok) ==
    \E restored \in RestoreSessionFromSupabase(durable, phone, get_ok) :
    LET R == CreateSession(phone, NoneV, channel, customer, customer, Profile(customer),
                           restored, NoneV, save_ok)
    IN /\ R.fits
       /\ SESSIONS' = [R.S EXCEPT ![R.token] = DedupeChatContext(@)]
       /\ PHONE_TO_CUSTOMER' = RegisterPhoneMapping(R.P2C, phone, customer)
       /\ Store(R)
       /\ resp' = Resp("login", 200, R.token, R.found)
       /\ UNCHANGED <<supabase_enabled, others, now, ticks, first_sid>>

\* the token of GET /session/restore without the comparison of the row's token
RestoreTokenUnmatched(x_token, x_phone, restored) ==
    IF x_token # NoTok
    THEN (IF x_token \in DOMAIN SESSIONS THEN x_token
          ELSE IF x_phone # NoneV /\ restored.found THEN x_token
          ELSE NoTok)
    ELSE IF PHONE_SESSIONS[x_phone] \in DOMAIN SESSIONS THEN PHONE_SESSIONS[x_phone]
    ELSE IF restored.found THEN restored.session.session_token
    ELSE NoTok

\* GET /session/restore: the token it answers with, NoTok for 404
RestoreToken(x_token, x_phone, restored) ==
    IF x_token # NoTok
    THEN (IF x_token \in DOMAIN SESSIONS THEN x_token
          ELSE IF x_phone # NoneV /\ restored.found
                  /\ restored.session.session_token = x_token THEN x_token
          ELSE NoTok)
    ELSE IF PHONE_SESSIONS[x_phone] \in DOMAIN SESSIONS THEN PHONE_SESSIONS[x_phone]
    ELSE IF restored.found THEN restored.session.session_token
    ELSE NoTok

\* GET /session/restore
SessionRestore(x_token, x_phone, get_ok, exp_ok) ==
    IF x_token = NoTok /\ x_phone = NoneV
    THEN /\ resp' = Resp("restore", 400, NoTok, "none")
         /\ UNCHANGED <<SESSIONS, PHONE_SESSIONS, PHONE_SESSION_IDS, PHONE_TO_CUSTOMER,
                        TELEGRAM_SESSIONS, TELEGRAM_TO_PHONE, durable, supabase_enabled, others,
                        now, ticks, next_token, next_sid, first_sid>>
    ELSE \E restored \in RestoreSessionFromSupabase(durable, x_phone, get_ok) :
         LET token == RestoreToken(x_token, x_phone, restored)
             hit == IF x_token # NoTok THEN x_token \in DOMAIN SESSIONS
                    ELSE PHONE_SESSIONS[x_phone] \in DOMAIN SESSIONS
         IN /\ SESSIONS' = IF token # NoTok /\ ~hit
                           THEN (token :> restored.session) @@ SESSIONS ELSE SESSIONS
            /\ PHONE_SESSIONS' = IF token # NoTok /\ ~hit /\ x_token = NoTok
                                 THEN [PHONE_SESSIONS EXCEPT ![x_phone] = token]
                                 ELSE PHONE_SESSIONS
            /\ durable' = IF hit
                          THEN UpdateSessionExpiryInSupabase(
                                   durable, SESSIONS[token].session_id, exp_ok)
                          ELSE durable
            /\ resp' = Resp("restore", IF token = NoTok THEN 404 ELSE 200, token,
                            IF token = NoTok THEN "none"
                            ELSE IF hit THEN "memory" ELSE "supabase")
            /\ UNCHANGED <<PHONE_SESSION_IDS, PHONE_TO_CUSTOMER, TELEGRAM_SESSIONS,
                           TELEGRAM_TO_PHONE, supabase_enabled, others, now, ticks,
                           next_token, next_sid, first_sid>>

\* POST /session/update
SessionUpdate(x_token, action, payload, sync_ok, exp_ok) ==
    LET status == IF x_token = NoTok THEN 400 ELSE UpdateStatus(x_token, action, payload)
    IN IF status = 500
       THEN /\ SESSIONS' = [SESSIONS EXCEPT ![x_token].data =
                              ChatMessageDataRaised(@, SenderOf(payload), payload.message,
                                                    payload.metadata)]
            /\ resp' = Resp("update", status, x_token, "none")
            /\ UNCHANGED <<PHONE_SESSIONS, PHONE_SESSION_IDS, PHONE_TO_CUSTOMER,
                           TELEGRAM_SESSIONS, TELEGRAM_TO_PHONE, durable,
                           supabase_enabled, others, now, ticks, next_token, next_sid,
                           first_sid>>
       ELSE IF status # 200
       THEN /\ resp' = Resp("update", status, x_token, "none")
            /\ UNCHANGED <<SESSIONS, PHONE_SESSIONS, PHONE_SESSION_IDS, PHONE_TO_CUSTOMER,
                           TELEGRAM_SESSIONS, TELEGRAM_TO_PHONE, durable,
                           supabase_enabled, others, now, ticks, next_token, next_sid,
                           first_sid>>
       ELSE LET session == UpdatedSession(SESSIONS[x_token], action, payload)
                synced == IF SyncsMetadata(action)
                          THEN UpdateMetadataToSupabase(durable, x_token, session, sync_ok)
                          ELSE durable
            IN /\ SESSIONS' = [SESSIONS EXCEPT ![x_token] = session]
               /\ durable' = UpdateSessionExpiryInSupabase(synced, session.session_id,
                                                           exp_ok)
               /\ resp' = Resp("update", 200, x_token, "memory")
               /\ UNCHANGED <<PHONE_SESSIONS, PHONE_SESSION_IDS, PHONE_TO_CUSTOMER,
                              TELEGRAM_SESSIONS, TELEGRAM_TO_PHONE, supabase_enabled, others,
                              now, ticks, next_token, next_sid, first_sid>>

\* POST /session/end
SessionEnd(x_token, del_ok) ==
    IF x_token \notin DOMAIN SESSIONS
    THEN /\ resp' = Resp("end", IF x_token = NoTok THEN 400 ELSE 404, x_token, "none")
         /\ UNCHANGED <<SESSIONS, PHONE_SESSIONS, PHONE_SESSION_IDS, PHONE_TO_CUSTOMER,
                        TELEGRAM_SESSIONS, TELEGRAM_TO_PHONE, durable, supabase_enabled, others,
                        now, ticks, next_token, next_sid, first_sid>>
    ELSE /\ SESSIONS' = [SESSIONS EXCEPT ![x_token].is_active = FALSE,
                                         ![x_token].updated_at = now]
         /\ durable' = DeleteSessionFromSupabase(durable, SESSIONS[x_token].session_id,
                                                 del_ok)
         /\ resp' = Resp("end", 200, x_token, "memory")
         /\ UNCHANGED <<PHONE_SESSIONS, PHONE_SESSION_IDS, PHONE_TO_CUSTOMER,
                        TELEGRAM_SESSIONS, TELEGRAM_TO_PHONE, supabase_enabled, others,
                        now, ticks, next_token, next_sid, first_sid>>

\* POST /auth/logout
AuthLogout(x_token) ==
    IF x_token \notin DOMAIN SESSIONS
    THEN /\ resp' = Resp("logout", IF x_token = NoTok THEN 400 ELSE 404, x_token, "none")
         /\ UNCHANGED <<SESSIONS, PHONE_SESSIONS, PHONE_SESSION_IDS, PHONE_TO_CUSTOMER,
                        TELEGRAM_SESSIONS, TELEGRAM_TO_PHONE, durable, supabase_enabled, others,
                        now, ticks, next_token, next_sid, first_sid>>
    ELSE LET s == SESSIONS[x_token] IN
         /\ SESSIONS' = [SESSIONS EXCEPT ![x_token].is_active = FALSE,
                                         ![x_token].updated_at = now]
         /\ PHONE_SESSIONS' =
               IF s.phone # NoneV /\ PHONE_SESSIONS[s.phone] = x_token
               THEN [PHONE_SESSIONS EXCEPT ![s.phone] = NoTok] ELSE PHONE_SESSIONS
         /\ TELEGRAM_SESSIONS' =
               IF s.telegram_chat_id # NoneV
                  /\ TELEGRAM_SESSIONS[s.telegram_chat_id] = x_token
               THEN [TELEGRAM_SESSIONS EXCEPT ![s.telegram_chat_id] = NoTok]
               ELSE TELEGRAM_SESSIONS
         /\ resp' = Resp("logout", 200, x_token, "memory")
         /\ UNCHANGED <<PHONE_SESSION_IDS, PHONE_TO_CUSTOMER, TELEGRAM_TO_PHONE,
                        durable, supabase_enabled, others, now, ticks, next_token, next_sid,
                        first_sid>>

\* the process is restarted: the module-level dicts are built anew, the table
\* and the identifiers already handed out stay
Restart ==
    /\ SESSIONS # <<>>
    /\ SESSIONS' = <<>>
    /\ PHONE_SESSIONS' = [p \in Phones |-> NoTok]
    /\ PHONE_SESSION_IDS' = [p \in Phones |-> NoSid]
    /\ PHONE_TO_CUSTOMER' =
          [p \in Phones |-> IF p \in DOMAIN CsvCustomers THEN CsvCustomers[p] ELSE NoneV]
    /\ TELEGRAM_SESSIONS' = [c \in Chats |-> NoTok]
    /\ TELEGRAM_TO_PHONE' = [c \in Chats |-> NoneV]
    /\ resp' = NoResp
    /\ first_sid' = [p \in Phones |-> NoSid]
    /\ QR_TOKEN_STORE' = <<>>
    /\ UNCHANGED <<durable, supabase_enabled, now, ticks, next_token, next_sid>>
    /\ UNCHANGED <<qrGhosts, redisVars, timingVars>>

\* time passes: a day, or more than the expiry window
TickSteps == {1, Window + 1}

Tick ==
    /\ ticks < MaxTicks
    /\ ticks' = ticks + 1
    /\ \E d \in TickSteps : now' = now + d
    /\ UNCHANGED <<SESSIONS, PHONE_SESSIONS, PHONE_SESSION_IDS, PHONE_TO_CUSTOMER,
                   TELEGRAM_SESSIONS, TELEGRAM_TO_PHONE, durable, supabase_enabled, others,
                   next_token, next_sid, resp, first_sid>>

(***************************************************************************)
(* The requests of the specifications. A request names a session by a      *)
(* token the process has handed out and still holds.                       *)
(***************************************************************************)
\* /session/start with its identifiers, channel and customer_id drawn from the
\* given sets, the backend answering or failing as gets and saves allow
StartRequests(phones, chats, channels, customers, gets, saves) ==
    \E phone \in phones, tg \in chats, channel \in channels, customer_id \in customers,
       get_ok \in gets, save_ok \in saves :
       /\ phone # NoneV \/ tg # NoneV
       /\ SessionStart(phone, tg, channel, NoneV, customer_id, get_ok, NoneV, save_ok)

\* /session/restore by token, or by phone
RestoreRequests(phones, gets) ==
    \/ \E x_token \in DOMAIN SESSIONS : SessionRestore(x_token, NoneV, TRUE, TRUE)
    \/ \E x_phone \in phones, get_ok \in gets : SessionRestore(NoTok, x_phone, get_ok, TRUE)

\* /session/update add_to_cart, while the cart is short of MaxCart
CartRequest ==
    \E x_token \in DOMAIN SESSIONS :
       /\ Len(SESSIONS[x_token].data.cart) < MaxCart
       /\ SessionUpdate(x_token, "add_to_cart", CartPayload("SKU123"), TRUE, TRUE)

\* /session/end
EndRequest == \E x_token \in DOMAIN SESSIONS : SessionEnd(x_token, TRUE)

\* /auth/logout
LogoutRequest == \E x_token \in DOMAIN SESSIONS : AuthLogout(x_token)

(***************************************************************************)
(* Spec: the identities. One phone and one chat on one channel, up to      *)
(* MaxTokens sessions; the backend, when enabled, answers every call; the  *)
(* clock stands still.                                                     *)
(***************************************************************************)
\* the phones /session/start is called with
StartPhones == {"p1", NoneV}

StartRequest ==
    StartRequests(StartPhones, OptChats, {"whatsapp"}, {NoneV}, {TRUE}, {TRUE})

RestoreRequest == RestoreRequests({"p1"}, {TRUE})

Next ==
    \/ StartRequest
    \/ RestoreRequest
    \/ CartRequest
    \/ EndRequest
    \/ LogoutRequest
    \/ Restart

Spec == Init /\ [][Next]_vars

(***************************************************************************)
(* SpecMerge: the merge. One phone and one chat, MaxMergeTokens session,   *)
(* every channel, a customer_id supplied or not.                           *)
(***************************************************************************)
\* the customer ids /session/start is called with in SpecMerge
MergeCustomers == {NoneV, "cu2"}

MergeStart ==
    /\ StartRequests(StartPhones, OptChats, Channels, MergeCustomers,
                     {TRUE}, {TRUE})
    /\ next_token' <= MaxMergeTokens

NextMerge ==
    \/ MergeStart
    \/ RestoreRequest
    \/ CartRequest
    \/ EndRequest
    \/ LogoutRequest
    \/ Restart

SpecMerge == Init /\ [][NextMerge]_vars

(***************************************************************************)
(* SpecSync: the mirror. One phone on one channel; the clock advances, the *)
(* process restarts, and the backend answers or fails the insert of a new  *)
(* session, the lookup of a restore and the PATCH of the metadata.         *)
(***************************************************************************)
\* /session/update with one of the four actions, while the lists are short
UpdateRequests(syncs) ==
    \E x_token \in DOMAIN SESSIONS, sync_ok \in syncs, exp_ok \in {TRUE} :
       \/ /\ Len(SESSIONS[x_token].data.cart) < MaxCart
          /\ SessionUpdate(x_token, "add_to_cart", CartPayload("SKU123"), sync_ok, exp_ok)
       \/ /\ Len(SESSIONS[x_token].data.recent) < MaxRecent
          /\ SessionUpdate(x_token, "view_product", ViewPayload("SKU123"), sync_ok, exp_ok)
       \/ /\ Len(SESSIONS[x_token].data.chat_context) < MaxChat
          /\ SessionUpdate(x_token, "chat_message",
                           ChatPayload(TRUE, "user", MsgHi, NoMetadata), sync_ok, exp_ok)
       \/ SessionUpdate(x_token, "set_user", UserPayload("cu2"), sync_ok, exp_ok)

SyncStart == StartRequests({"p1"}, {NoneV}, {"whatsapp"}, {NoneV}, {TRUE}, BOOLEAN)

SyncRestore == RestoreRequests({"p1"}, BOOLEAN)

SyncUpdate == UpdateRequests(BOOLEAN)

NextSync ==
    \/ SyncStart
    \/ SyncRestore
    \/ SyncUpdate
    \/ Restart
    \/ Tick

SpecSync == Init /\ [][NextSync]_vars

(***************************************************************************)
(* SpecChat: the chat history. One session of one phone, chat messages of  *)
(* every sender with and without product cards, up to MaxChat entries; the *)
(* clock advances.                                                         *)
(***************************************************************************)
ChatSenders == {"user", "agent", NoneV}
ChatMessages == {MsgBuyShoes, MsgCart, MsgShow, MsgHi}
TwoCards == Metadata(<<Card("A1", NoneV, NoneV), Card(NoneV, "B2", NoneV)>>)
ChatMetadata == {NoMetadata, TwoCards}

\* /session/update chat_message, while the history is short of max entries or
\* the message repeats the last one
ChatRequests(senders, messages, metadatas, max) ==
    \E x_token \in DOMAIN SESSIONS, sender \in senders, message \in messages,
       metadata \in metadatas :
       /\ \/ Len(SESSIONS[x_token].data.chat_context) < max
          \/ IsDuplicate(SESSIONS[x_token].data.chat_context,
                         SenderOf(ChatPayload(TRUE, sender, message, metadata)), message)
       /\ SessionUpdate(x_token, "chat_message",
                        ChatPayload(TRUE, sender, message, metadata), TRUE, TRUE)

ChatStart == StartRequests({"p1"}, {NoneV}, {"whatsapp"}, {NoneV}, {TRUE}, {TRUE})

ChatRequest == ChatRequests(ChatSenders, ChatMessages, ChatMetadata, MaxChat)

NextChat ==
    \/ ChatStart
    \/ ChatRequest
    \/ Tick

SpecChat == Init /\ [][NextChat]_vars

(***************************************************************************)
(* SpecSummary: the conversation summary. One session of one chat id, a    *)
(* user message and two agent messages, up to MaxSummaryChat entries.      *)
(***************************************************************************)
SummaryStart ==
    /\ SESSIONS = <<>>
    /\ StartRequests({NoneV}, Chats, {"whatsapp"}, {NoneV}, {TRUE}, {TRUE})

\* what the agent says in SpecSummary
SummaryAgentMessages == {MsgOk, MsgHi}

SummaryChat ==
    \/ ChatRequests({"user"}, {MsgBuyShoes}, {NoMetadata}, MaxSummaryChat)
    \/ ChatRequests({"agent"}, SummaryAgentMessages, {NoMetadata}, MaxSummaryChat)

NextSummaryChat ==
    \/ SummaryStart
    \/ SummaryChat

SpecSummary == Init /\ [][NextSummaryChat]_vars

(***************************************************************************)
(* SpecView: the product views. One session of one phone; the n-th         *)
(* view_product call views product n, up to MaxViews calls; the clock      *)
(* advances.                                                               *)
(***************************************************************************)
\* the product id of the n-th view_product call, and the n of a product id
ProductId(n) == ToString(n)
ProductNumber(product) == CHOOSE n \in 1..(MaxViews + 1) : ProductId(n) = product

\* the number of view_product calls a session has seen
Views(recent) == IF Len(recent) = 0 THEN 0 ELSE ProductNumber(recent[1].product)

ViewRequest ==
    \E x_token \in DOMAIN SESSIONS :
       /\ Views(SESSIONS[x_token].data.recent) < MaxViews
       /\ SessionUpdate(x_token, "view_product",
                        ViewPayload(ProductId(Views(SESSIONS[x_token].data.recent) + 1)),
                        TRUE, TRUE)

NextView ==
    \/ ChatStart
    \/ ViewRequest
    \/ Tick

SpecView == Init /\ [][NextView]_vars

(***************************************************************************)
(* SpecCards: the product cards. One session of one phone, chat messages   *)
(* of the agent and the user with product cards of every shape, up to      *)
(* MaxCardChat entries, and one product view.                              *)
(***************************************************************************)
CardSenders == {"agent", "user"}

\* cards with the SKU under product_id, under no key, and under all three keys
MixedCards ==
    Metadata(<<Card(NoneV, NoneV, "C3"), Card(NoneV, NoneV, NoneV), Card("A1", "X", "Y")>>)
\* cards none of which has a SKU
NoSkuCards == Metadata(<<Card(NoneV, NoneV, NoneV)>>)
\* one card more than recent keeps SKUs
ManyCards ==
    Metadata([i \in 1..(SkuRecentCap + 1) |-> Card(ToString(i), NoneV, NoneV)])

CardsMetadata == {NoMetadata, TwoCards, MixedCards, NoSkuCards, ManyCards}

CardsStart ==
    /\ SESSIONS = <<>>
    /\ StartRequests({"p1"}, {NoneV}, {"whatsapp"}, {NoneV}, {TRUE}, {TRUE})

\* /session/update chat_message that does not repeat the last entry
CardsChat ==
    \E x_token \in DOMAIN SESSIONS, sender \in CardSenders,
       message \in SummaryAgentMessages, metadata \in CardsMetadata :
       /\ Len(SESSIONS[x_token].data.chat_context) < MaxCardChat
       /\ ~IsDuplicate(SESSIONS[x_token].data.chat_context, sender, message)
       /\ SessionUpdate(x_token, "chat_message",
                        ChatPayload(TRUE, sender, message, metadata), TRUE, TRUE)

\* /session/update view_product, once per session
CardsView ==
    \E x_token \in DOMAIN SESSIONS :
       /\ \A i \in 1..Len(SESSIONS[x_token].data.recent) :
             SESSIONS[x_token].data.recent[i].kind # "view"
       /\ SessionUpdate(x_token, "view_product", ViewPayload("SKU123"), TRUE, TRUE)

NextCards ==
    \/ CardsStart
    \/ CardsChat
    \/ CardsView

SpecCards == Init /\ [][NextCards]_vars

(***************************************************************************)
(* SpecFail: the requests that fail. One session of one phone; updates of  *)
(* every action with and without their payload field, with a message that  *)
(* is no string, without a token and with a token never handed out.        *)
(***************************************************************************)
\* no X-Session-Token header, and a token the process never handed out
UnknownTokens == {NoTok, MaxTokens + 1}

\* the bodies of /session/update
FailRequests ==
    {[action |-> "add_to_cart", payload |-> CartPayload("SKU123")],
     [action |-> "add_to_cart", payload |-> CartPayload(NoneV)],
     [action |-> "view_product", payload |-> ViewPayload("SKU123")],
     [action |-> "view_product", payload |-> ViewPayload(NoneV)],
     [action |-> "chat_message", payload |-> ChatPayload(TRUE, NoneV, MsgHi, NoMetadata)],
     [action |-> "chat_message", payload |-> ChatPayload(TRUE, "agent", MsgOk, NoMetadata)],
     [action |-> "chat_message", payload |-> ChatPayload(TRUE, NoneV, MsgNumber, NoMetadata)],
     [action |-> "chat_message", payload |-> ChatPayload(FALSE, NoneV, <<>>, NoMetadata)],
     [action |-> "set_user", payload |-> UserPayload("cu2")],
     [action |-> "set_user", payload |-> UserPayload(NoneV)],
     [action |-> "foo", payload |-> CartPayload("SKU123")]}

\* /session/update, while the lists stay short
FailUpdate ==
    \E x_token \in DOMAIN SESSIONS \cup UnknownTokens, r \in FailRequests :
       /\ SessionUpdate(x_token, r.action, r.payload, TRUE, TRUE)
       /\ \A t \in DOMAIN SESSIONS' :
             /\ Len(SESSIONS'[t].data.cart) <= MaxCart
             /\ Len(SESSIONS'[t].data.recent) <= MaxRecent
             /\ Len(SESSIONS'[t].data.chat_context) <= MaxChat

NextFail ==
    \/ ChatStart
    \/ FailUpdate

SpecFail == Init /\ [][NextFail]_vars

(***************************************************************************)
(* SpecOutage: the backend fails. One phone on one channel; every call to  *)
(* the backend (the lookup and the insert of a start, the PATCHes of an    *)
(* update and of an end) is answered or fails; the process restarts.       *)
(***************************************************************************)
NextOutage ==
    \/ StartRequests({"p1"}, {NoneV}, {"whatsapp"}, {NoneV}, BOOLEAN, BOOLEAN)
    \/ \E x_token \in DOMAIN SESSIONS, sync_ok \in BOOLEAN, exp_ok \in BOOLEAN :
          \/ /\ Len(SESSIONS[x_token].data.cart) < MaxCart
             /\ SessionUpdate(x_token, "add_to_cart", CartPayload("SKU123"),
                              sync_ok, exp_ok)
          \/ /\ SESSIONS[x_token].data.chat_context = <<>>
             /\ SessionUpdate(x_token, "chat_message",
                              ChatPayload(TRUE, "user", MsgHi, NoMetadata),
                              sync_ok, exp_ok)
    \/ \E x_token \in DOMAIN SESSIONS, del_ok \in BOOLEAN : SessionEnd(x_token, del_ok)
    \/ Restart

SpecOutage == Init /\ [][NextOutage]_vars

(***************************************************************************)
(* SpecReload: restores after a restart. One phone on one channel, the     *)
(* backend answering every start; /session/restore is called with any      *)
(* token or none and any phone or none, the lookup answered or failing;    *)
(* /session/start is also called without an identifier; sessions are       *)
(* updated and ended, the process restarts and the clock advances.         *)
(***************************************************************************)
NextReload ==
    \/ StartRequests({"p1"}, {NoneV}, {"whatsapp"}, {NoneV}, {TRUE}, {TRUE})
    \/ SessionStart(NoneV, NoneV, "whatsapp", NoneV, NoneV, TRUE, NoneV, TRUE)
    \/ \E x_token \in NoTok..MaxTokens, x_phone \in OptPhones, get_ok \in BOOLEAN :
          SessionRestore(x_token, x_phone, get_ok, TRUE)
    \/ CartRequest
    \/ EndRequest
    \/ Restart
    \/ Tick

SpecReload == Init /\ [][NextReload]_vars

(***************************************************************************)
(* Properties of create_session as /session/start runs it.                 *)
(***************************************************************************)

\* the answers the backend may give to the lookup of a start request
Restores(phone) == RestoreSessionFromSupabase(durable, phone, TRUE)

\* the step is a /session/start of these identifiers that the backend answered
\* with restored, on any channel
StartStep(phone, tg, customer_id, restored) ==
    /\ resp'.op = "start" /\ resp'.status = 200
    /\ \E channel \in Channels :
          SessionStartWith(phone, tg, channel, NoneV, customer_id, restored, NoneV, TRUE)

\* the payload of a session's data
Payload(s) ==
    [cart |-> s.data.cart, recent |-> s.data.recent,
     chat_context |-> s.data.chat_context,
     last_recommended_skus |-> s.data.last_recommended_skus,
     conversation_summary |-> s.data.conversation_summary]

\* C1: every successful start-session call with phone p returns the session_id
\* that the first start-session call with p returned, and the token p is mapped
\* to when that session is still active and unexpired.
C1_OneSessionIdPerPhone ==
    [][\A phone \in Phones, tg \in OptChats, customer_id \in OptCustomers :
       \A restored \in Restores(phone) :
          (StartStep(phone, tg, customer_id, restored) /\ first_sid[phone] # NoSid)
          => /\ SESSIONS'[resp'.token].session_id = first_sid[phone]
             /\ (InMemory(phone, NoneV)
                 /\ SESSIONS[PHONE_SESSIONS[phone]].is_active
                 /\ now <= SESSIONS[PHONE_SESSIONS[phone]].expires_at)
                => resp'.token = PHONE_SESSIONS[phone]]_vars

\* C2: a start-session call that resolves to a session the cache holds leaves
\* that session's data payload (cart, recent, chat history, recommended SKUs,
\* summary) as the cached session had it before the call.
C2_MergeKeepsPayload ==
    [][\A phone \in OptPhones, tg \in OptChats, customer_id \in OptCustomers :
       \A restored \in Restores(phone) :
          (StartStep(phone, tg, customer_id, restored) /\ resp'.token \in DOMAIN SESSIONS)
          => Payload(SESSIONS'[resp'.token]) = Payload(SESSIONS[resp'.token])]_vars

\* C3: when a start-session call with phone p finds a durable row whose token
\* the cache also holds for p, the record left in the cache under that token is
\* the cached one: it keeps its session_id and its creation time, the durable
\* copy does not take its place.
C3_CacheWins ==
    [][\A phone \in Phones, tg \in OptChats, customer_id \in OptCustomers :
       \A restored \in Restores(phone) :
          (/\ StartStep(phone, tg, customer_id, restored)
           /\ restored.found
           /\ restored.session.session_token \in DOMAIN SESSIONS
           /\ SESSIONS[restored.session.session_token].phone = phone)
          => LET t == restored.session.session_token
             IN /\ SESSIONS'[t].session_id = SESSIONS[t].session_id
                /\ SESSIONS'[t].created_at = SESSIONS[t].created_at]_vars

\* C4 (as the code has it): a start-session call that merges into an existing
\* session never clears a non-empty customer_id, it replaces customer_id by the
\* one the call carries (supplied by the caller, or resolved by session_start
\* from the phone mapping) whenever the call carries one, and leaves it as it
\* was when the call carries none.
C4_MergeTakesCallersCustomerId ==
    [][\A phone \in OptPhones, tg \in OptChats, customer_id \in OptCustomers :
       \A restored \in Restores(phone) :
          (/\ StartStep(phone, tg, customer_id, restored)
           /\ InMemory(phone, tg) \/ TakenFromSupabase(phone, tg, restored))
          => LET old == IF InMemory(phone, tg) THEN SESSIONS[ExistingToken(phone, tg)]
                        ELSE restored.session
                 carried == StartCustomerId(phone, customer_id)
                 new == SESSIONS'[resp'.token].customer_id
             IN /\ new = IF carried # NoneV THEN carried ELSE old.customer_id
                /\ old.customer_id # NoneV => new # NoneV]_vars

\* C4's case: a merge in memory has replaced the customer_id cu1 the session was
\* created with (still its user_id) by the caller's cu2
C4_Replaced ==
    /\ resp.op = "start" /\ resp.status = 200 /\ resp.found = "memory"
    /\ SESSIONS[resp.token].customer_id = "cu2"
    /\ SESSIONS[resp.token].user_id = "cu1"

\* C4 as stated: a start-session call that merges into an existing session
\* leaves a non-empty customer_id of that session as it was.
C4_MergeKeepsCustomerId ==
    [][\A phone \in OptPhones, tg \in OptChats, customer_id \in OptCustomers :
       \A restored \in Restores(phone) :
          (/\ StartStep(phone, tg, customer_id, restored)
           /\ InMemory(phone, tg) \/ TakenFromSupabase(phone, tg, restored))
          => LET old == IF InMemory(phone, tg) THEN SESSIONS[ExistingToken(phone, tg)]
                        ELSE restored.session
             IN old.customer_id # NoneV
                => SESSIONS'[resp'.token].customer_id = old.customer_id]_vars

\* C5: after a successful start-session call with phone p and chat id c, the
\* lookup of a start-session call that supplies only c finds the session just
\* returned.
C5_ChatFindsPhoneSession ==
    [][\A phone \in Phones, tg \in Chats, customer_id \in OptCustomers :
       \A restored \in Restores(phone) :
          StartStep(phone, tg, customer_id, restored)
          => /\ InMemory(NoneV, tg)'
             /\ ExistingToken(NoneV, tg)' = resp'.token]_vars

(***************************************************************************)
(* Properties of the mirror to the durable backend.                        *)
(***************************************************************************)
\* the step is a successful /session/update on x_token with the backend
\* answering every call
UpdateStep(x_token) ==
    /\ resp'.op = "update" /\ resp'.status = 200 /\ resp'.token = x_token
    /\ \/ SessionUpdate(x_token, "add_to_cart", CartPayload("SKU123"), TRUE, TRUE)
       \/ SessionUpdate(x_token, "view_product", ViewPayload("SKU123"), TRUE, TRUE)
       \/ SessionUpdate(x_token, "chat_message",
                        ChatPayload(TRUE, "user", MsgHi, NoMetadata), TRUE, TRUE)
       \/ SessionUpdate(x_token, "set_user", UserPayload("cu2"), TRUE, TRUE)

\* the step is a successful /session/restore answering x_token, by token or by
\* phone, with the backend answering every call
RestoreStep(x_token) ==
    /\ resp'.op = "restore" /\ resp'.status = 200 /\ resp'.token = x_token
    /\ \/ SessionRestore(x_token, NoneV, TRUE, TRUE)
       \/ \E x_phone \in Phones : SessionRestore(NoTok, x_phone, TRUE, TRUE)

\* the step is a /session/start that merged into the existing session x_token,
\* with the backend answering every call
MergeStep(x_token) ==
    /\ resp'.token = x_token /\ resp'.found # "new"
    /\ \E phone \in OptPhones, tg \in OptChats :
          \E restored \in Restores(phone) : StartStep(phone, tg, NoneV, restored)

\* C6: after a successful update (add_to_cart, view_product, chat_message,
\* set_user) with the backend answering, the durable row of the session's token
\* holds the data payload of the cached session.
C6_UpdateSyncsData ==
    [][\A x_token \in Tokens :
          (UpdateStep(x_token) /\ supabase_enabled /\ x_token \in DOMAIN durable)
          => durable'[x_token].metadata = SESSIONS'[x_token].data]_vars

\* C7: after a successful activity on a session (a start-session merge, a
\* restore, an update) with the backend answering, expires_at is 7 days after
\* the activity in the cached record and in the session's durable row.
C7_ActivitySlidesExpiry ==
    [][\A x_token \in Tokens :
          (UpdateStep(x_token) \/ RestoreStep(x_token) \/ MergeStep(x_token))
          => /\ SESSIONS'[x_token].expires_at = now + Window
             /\ (supabase_enabled /\ x_token \in DOMAIN durable)
                => durable'[x_token].expires_at = now + Window]_vars

(***************************************************************************)
(* Properties of the chat_message branch of update_session_state.          *)
(***************************************************************************)
\* the step is a successful chat_message of sender, message and metadata on
\* x_token (the last entry of the history then is that message)
ChatStep(x_token, sender, message, metadata) ==
    /\ resp'.op = "update" /\ resp'.status = 200 /\ resp'.token = x_token
    /\ x_token \in DOMAIN SESSIONS
    /\ Len(SESSIONS'[x_token].data.chat_context) > 0
    /\ LET last == SESSIONS'[x_token].data.chat_context[
                       Len(SESSIONS'[x_token].data.chat_context)]
       IN /\ last.message = message
          /\ last.sender = (IF sender = NoneV THEN "user" ELSE sender)
    /\ SessionUpdate(x_token, "chat_message",
                     ChatPayload(TRUE, sender, message, metadata), TRUE, TRUE)

AllMessages == ChatMessages \cup {MsgOk}

\* C8: after a chat_message of sender "user", data.last_action is the intent
\* the keywords of the message give (purchase before cart before browsing), and
\* None when no keyword matches.
C8_LastActionIsDetectedIntent ==
    [][\A x_token \in Tokens, message \in AllMessages, metadata \in ChatMetadata :
          ChatStep(x_token, "user", message, metadata)
          => SESSIONS'[x_token].data.last_action =
                IF DetectLastActionFromMessage(message) = NoneV THEN NoAction
                ELSE IntentAction(DetectLastActionFromMessage(message))]_vars

\* C9 (as the code has it): no chat history ever holds two adjacent entries of
\* the same sender and message. A chat_message that repeats the last entry
\* leaves the history as long as it was and the entries before the last as they
\* were, sets the last entry's timestamp to the time of the call and, when the
\* call carries metadata, replaces the last entry's metadata by it; any other
\* chat_message appends exactly one entry.
C9_NoAdjacentDuplicates ==
    /\ [](\A t \in DOMAIN SESSIONS :
            \A i \in 1..(Len(SESSIONS[t].data.chat_context) - 1) :
               ~(/\ SESSIONS[t].data.chat_context[i].sender =
                       SESSIONS[t].data.chat_context[i + 1].sender
                 /\ SESSIONS[t].data.chat_context[i].message =
                       SESSIONS[t].data.chat_context[i + 1].message))
    /\ [][\A x_token \in Tokens, sender \in ChatSenders, message \in AllMessages,
             metadata \in ChatMetadata :
             ChatStep(x_token, sender, message, metadata)
             => LET old == SESSIONS[x_token].data.chat_context
                    new == SESSIONS'[x_token].data.chat_context
                    who == IF sender = NoneV THEN "user" ELSE sender
                    n == Len(old)
                IN IF n > 0 /\ old[n].sender = who /\ old[n].message = message
                   THEN /\ Len(new) = n
                        /\ SubSeq(new, 1, n - 1) = SubSeq(old, 1, n - 1)
                        /\ new[n].sender = who /\ new[n].message = message
                        /\ new[n].timestamp = now /\ now >= old[n].timestamp
                        /\ new[n].metadata =
                              IF metadata.present THEN metadata ELSE old[n].metadata
                   ELSE /\ Len(new) = n + 1
                        /\ SubSeq(new, 1, n) = old
                        /\ new[n + 1] = ChatEntry(who, message, now, metadata)]_vars

\* C9's case: a repeated chat_message has refreshed the timestamp of the only
\* entry (last_action still carries the time of the first one) and replaced its
\* metadata by the cards of the repeat
C9_Refreshed ==
    /\ resp.op = "update" /\ resp.status = 200
    /\ Len(SESSIONS[resp.token].data.chat_context) = 1
    /\ SESSIONS[resp.token].data.chat_context[1].timestamp > 0
    /\ SESSIONS[resp.token].data.chat_context[1].metadata = TwoCards
    /\ SESSIONS[resp.token].data.chat_context[1].sender = "user"
    /\ SESSIONS[resp.token].data.last_action =
          DictAction("chat_message", "user", 0)
    /\ SESSIONS[resp.token].created_at = 0

\* C9 as stated: a chat_message that repeats the last entry only refreshes that
\* entry's timestamp: but for the timestamp the history stays as it was.
C9_RepeatOnlyRefreshesTimestamp ==
    [][\A x_token \in Tokens, sender \in ChatSenders, message \in AllMessages,
          metadata \in ChatMetadata :
          (/\ ChatStep(x_token, sender, message, metadata)
           /\ IsDuplicate(SESSIONS[x_token].data.chat_context,
                          IF sender = NoneV THEN "user" ELSE sender, message))
          => SESSIONS'[x_token].data.chat_context =
                [SESSIONS[x_token].data.chat_context EXCEPT
                    ![Len(SESSIONS[x_token].data.chat_context)].timestamp = now]]_vars

\* C10 (as the code has it): a chat_message changes conversation_summary only
\* when the history after the call is 6, 12, 18, ... entries long; at such a
\* length the summary is replaced by the regenerated one, which is non-empty,
\* when one of the last 10 entries is a user message, and stays as it was when
\* none of them is.
C10_SummaryEverySix ==
    [][\A x_token \in Tokens, sender \in ChatSenders, message \in AllMessages :
          ChatStep(x_token, sender, message, NoMetadata)
          => LET ctx == SESSIONS'[x_token].data.chat_context
                 old == SESSIONS[x_token].data.conversation_summary
                 new == SESSIONS'[x_token].data.conversation_summary
                 due == Len(ctx) % 6 = 0 /\ Len(ctx) >= 6
                 user == \E i \in 1..Len(ctx) :
                            i > Len(ctx) - 10 /\ ctx[i].sender = "user"
             IN /\ new # old => due
                /\ (due /\ user) => (new = GenerateSimpleSummary(ctx) /\ ~new.empty)
                /\ (due /\ ~user) => new = old]_vars

\* C10's case: the history is 12 entries long, its user messages are more than
\* 10 entries back, and the summary of the 6th entry is still there
C10_KeptStale ==
    /\ resp.op = "update" /\ resp.status = 200
    /\ Len(SESSIONS[resp.token].data.chat_context) = 12
    /\ GenerateSimpleSummary(SESSIONS[resp.token].data.chat_context).empty
    /\ ~SESSIONS[resp.token].data.conversation_summary.empty

\* C10 as stated: a chat_message changes conversation_summary only when the
\* history after the call is 6, 12, 18, ... entries long; at each such length
\* the summary is the regenerated one, and it is non-empty when the history
\* holds a user message.
C10_RegeneratedEverySix ==
    [][\A x_token \in Tokens, sender \in ChatSenders, message \in AllMessages :
          ChatStep(x_token, sender, message, NoMetadata)
          => LET ctx == SESSIONS'[x_token].data.chat_context
                 old == SESSIONS[x_token].data.conversation_summary
                 new == SESSIONS'[x_token].data.conversation_summary
                 due == Len(ctx) % 6 = 0 /\ Len(ctx) >= 6
             IN /\ new # old => due
                /\ due => new = GenerateSimpleSummary(ctx)
                /\ (due /\ \E i \in 1..Len(ctx) : ctx[i].sender = "user")
                   => ~new.empty]_vars


C12_CardsRecordedUpToTen ==
    [][\A x_token \in Tokens, message \in AllMessages, metadata \in CardsMetadata :
          (metadata.present /\ ChatStep(x_token, "agent", message, metadata))
          => LET old == SESSIONS[x_token].data
                 new == SESSIONS'[x_token].data
                 skus == ExtractSkus(metadata.cards)
             IN IF Len(skus) = 0
                THEN /\ new.last_recommended_skus = old.last_recommended_skus
                     /\ new.recent = old.recent
                ELSE /\ new.last_recommended_skus = skus
                     /\ Len(new.recent) <= 10
                     /\ \A i \in 1..Len(new.recent) :
                           \/ InSeq(new.recent[i], old.recent)
                           \/ \E k \in 1..Len(skus) : new.recent[i] = SkuEntry(skus[k])
                     /\ Len(old.recent) + Len(skus) <= 10
                        => /\ SubSeq(new.recent, 1, Len(old.recent)) = old.recent
                           /\ \A k \in 1..Len(skus) :
                                 InSeq(SkuEntry(skus[k]), new.recent)]_vars

\* C12's case: the agent's two cards {"sku": "A1"}, {"SKU": "B2"} came after a
\* product view: both SKUs are recorded and follow the view in recent
C12_TwoCardsRecorded ==
    /\ resp.op = "update" /\ resp.status = 200
    /\ SESSIONS[resp.token].data.last_recommended_skus = <<"A1", "B2">>
    /\ Len(SESSIONS[resp.token].data.recent) = 3
    /\ SESSIONS[resp.token].data.recent[1].kind = "view"
    /\ SESSIONS[resp.token].data.recent[2] = SkuEntry("A1")
    /\ SESSIONS[resp.token].data.recent[3] = SkuEntry("B2")

\* C12 as stated: a chat_message of sender "agent" with product cards
\* overwrites last_recommended_skus with the list of the cards' SKUs, and every
\* extracted SKU is in recent after the call, for any number of cards.
C12_CardsRecorded ==
    [][\A x_token \in Tokens, message \in AllMessages, metadata \in CardsMetadata :
          (metadata.present /\ ChatStep(x_token, "agent", message, metadata))
          => /\ SESSIONS'[x_token].data.last_recommended_skus =
                   ExtractSkus(metadata.cards)
             /\ \A k \in 1..Len(ExtractSkus(metadata.cards)) :
                   InSeq(SkuEntry(ExtractSkus(metadata.cards)[k]),
                         SESSIONS'[x_token].data.recent)]_vars

\* C13: every update call that fails leaves the session cache and the identity
\* maps as they were. A call without a token fails with 400, one with an
\* unknown token with 404, one with an unknown action or without the field its
\* action requires with 400.
C13_FailedUpdateChangesNothing ==
    [][(resp'.op = "update" /\ resp'.status # 200)
       => /\ UNCHANGED <<SESSIONS, PHONE_SESSIONS, PHONE_SESSION_IDS,
                         PHONE_TO_CUSTOMER, TELEGRAM_SESSIONS, TELEGRAM_TO_PHONE>>
          /\ resp'.status = 400 \/ resp'.status = 404
          /\ resp'.status = 404 <=> (resp'.token # NoTok
                                     /\ resp'.token \notin DOMAIN SESSIONS)]_vars

(***************************************************************************)
(* Properties of the handlers when the backend fails.                      *)
(***************************************************************************)
\* C14: a call of start-session, update or end during which a call to the
\* enabled backend fails (the lookup or the insert of a start, a PATCH of an
\* update, the PATCH of an end) answers 200 all the same, and its session is in
\* the cache under the token answered, with the local effect of the call: the
\* session found in memory or a new one with a fresh token and the default
\* data for a start whose calls all fail, the mutated session for an update,
\* the session marked inactive for an end.
C14_BackendFailureIsAbsorbed ==
    [][/\ \A get_ok \in BOOLEAN, save_ok \in BOOLEAN :
          \A restored \in RestoreSessionFromSupabase(durable, "p1", get_ok) :
             (/\ supabase_enabled /\ ~(get_ok /\ save_ok)
              /\ SessionStartWith("p1", NoneV, "whatsapp", NoneV, NoneV, restored,
                                  NoneV, save_ok))
             => /\ resp'.status = 200
                /\ resp'.token \in DOMAIN SESSIONS'
                /\ SESSIONS'[resp'.token].is_active
                /\ PHONE_SESSIONS'["p1"] = resp'.token
                /\ (~get_ok /\ ~save_ok)
                   => /\ durable' = durable
                      /\ IF PHONE_SESSIONS["p1"] \in DOMAIN SESSIONS
                         THEN /\ resp'.token = PHONE_SESSIONS["p1"]
                              /\ SESSIONS'[resp'.token].data =
                                    SESSIONS[resp'.token].data
                         ELSE /\ resp'.token \notin DOMAIN SESSIONS
                              /\ SESSIONS'[resp'.token].data = DefaultData("whatsapp")
       /\ \A x_token \in Tokens, sync_ok \in BOOLEAN, exp_ok \in BOOLEAN :
             (/\ supabase_enabled /\ ~(sync_ok /\ exp_ok)
              /\ x_token \in DOMAIN SESSIONS
              /\ \/ SessionUpdate(x_token, "add_to_cart", CartPayload("SKU123"),
                                  sync_ok, exp_ok)
                 \/ SessionUpdate(x_token, "chat_message",
                                  ChatPayload(TRUE, "user", MsgHi, NoMetadata),
                                  sync_ok, exp_ok))
             => /\ resp'.status = 200 /\ resp'.token = x_token
                /\ SESSIONS'[x_token].updated_at = now
                /\ \/ SESSIONS'[x_token].data.cart =
                         Append(SESSIONS[x_token].data.cart, "SKU123")
                   \/ /\ Len(SESSIONS'[x_token].data.chat_context) = 1
                      /\ SESSIONS'[x_token].data.chat_context[1].message = MsgHi
                /\ (~sync_ok /\ ~exp_ok) => durable' = durable
       /\ \A x_token \in Tokens :
             (supabase_enabled /\ x_token \in DOMAIN SESSIONS /\ SessionEnd(x_token, FALSE))
             => /\ resp'.status = 200 /\ resp'.token = x_token
                /\ x_token \in DOMAIN SESSIONS'
                /\ ~SESSIONS'[x_token].is_active
                /\ SESSIONS'[x_token].data = SESSIONS[x_token].data
                /\ durable' = durable]_vars

\* C14's case: the backend is enabled, the insert of the new session of a
\* customer's phone failed (the table is empty), and the session was updated
\* and ended in the cache
C14_LocalOnly ==
    /\ supabase_enabled /\ durable = <<>>
    /\ resp.op = "end" /\ resp.status = 200
    /\ SESSIONS[resp.token].phone = "p1"
    /\ SESSIONS[resp.token].customer_id = "cu1"
    /\ SESSIONS[resp.token].data.cart = <<"SKU123">>
    /\ ~SESSIONS[resp.token].is_active

(***************************************************************************)
(* Properties of the expiry check of restore_session_from_supabase.        *)
(***************************************************************************)
\* C15: when phone p1 is not in the cache and its most recent active row of the
\* enabled backend is expired, a start-session with p1 that the backend answers
\* creates a new session under a token no row carries, and a restore by phone p1
\* answers 404 and leaves the cache as it was.
C15_ExpiredRowNotResurrected ==
    [][(/\ supabase_enabled
        /\ PHONE_SESSIONS["p1"] \notin DOMAIN SESSIONS
        /\ MostRecentActive(durable, "p1") # {}
        /\ \A t \in MostRecentActive(durable, "p1") : now > durable[t].expires_at)
       => /\ \A save_ok \in BOOLEAN :
                SessionStart("p1", NoneV, "whatsapp", NoneV, NoneV, TRUE, NoneV, save_ok)
                => /\ resp'.status = 200 /\ resp'.found = "new"
                   /\ resp'.token \notin DOMAIN durable
                   /\ resp'.token \notin DOMAIN SESSIONS
                   /\ resp'.token \in DOMAIN SESSIONS'
                   /\ SESSIONS'[resp'.token].data = DefaultData("whatsapp")
          /\ SessionRestore(NoTok, "p1", TRUE, TRUE)
                => /\ resp'.status = 404
                   /\ SESSIONS' = SESSIONS /\ PHONE_SESSIONS' = PHONE_SESSIONS]_vars

\* C15's case: the row of token 1 had expired when the start-session that
\* created the session of token 2 ran
C15_NewAfterExpiry ==
    /\ supabase_enabled
    /\ resp.op = "start" /\ resp.status = 200 /\ resp.token = 2
    /\ 1 \in DOMAIN durable /\ durable[1].status = "active"
    /\ durable[1].phone = "p1"
    /\ durable[1].expires_at < SESSIONS[2].created_at
    /\ SESSIONS[2].phone = "p1"

(***************************************************************************)
(* Properties of session_end.                                              *)
(***************************************************************************)
\* C16: a successful end-session on token T marks the session inactive and
\* leaves it in the cache with its data and session_id and every identity map
\* as they were; a start-session with the session's phone that follows returns
\* T and the same session_id, with the session active and its data as before.
C16_EndedSessionResumes ==
    [][/\ \A x_token \in DOMAIN SESSIONS :
             SessionEnd(x_token, TRUE)
             => /\ x_token \in DOMAIN SESSIONS' /\ ~SESSIONS'[x_token].is_active
                /\ SESSIONS'[x_token].data = SESSIONS[x_token].data
                /\ SESSIONS'[x_token].session_id = SESSIONS[x_token].session_id
                /\ UNCHANGED <<PHONE_SESSIONS, PHONE_SESSION_IDS, PHONE_TO_CUSTOMER,
                               TELEGRAM_SESSIONS, TELEGRAM_TO_PHONE>>
       /\ (/\ resp.op = "end" /\ resp.status = 200
           /\ resp'.op = "start"
           /\ SessionStart(SESSIONS[resp.token].phone, NoneV, "whatsapp", NoneV, NoneV,
                           TRUE, NoneV, TRUE))
          => /\ resp'.status = 200 /\ resp'.token = resp.token
             /\ SESSIONS'[resp.token].session_id = SESSIONS[resp.token].session_id
             /\ SESSIONS'[resp.token].is_active
             /\ Payload(SESSIONS'[resp.token]) = Payload(SESSIONS[resp.token])]_vars

(***************************************************************************)
(* Properties of the session_id of a Telegram-only session.                *)
(***************************************************************************)
\* C17: while chat c1 has never been given a phone, a successful start-session
\* with c1 alone returns a session with the session_id of every session of c1
\* the cache holds, also when a logout has removed c1's lookup entry.
C17_TelegramSessionIdStable ==
    [][\A x_token \in DOMAIN SESSIONS :
          (/\ SESSIONS[x_token].telegram_chat_id = "c1"
           /\ SESSIONS[x_token].phone = NoneV
           /\ TELEGRAM_TO_PHONE["c1"] = NoneV
           /\ \A p \in Phones : PHONE_SESSIONS[p] # x_token
           /\ resp'.op = "start" /\ resp'.status = 200
           /\ SessionStart(NoneV, "c1", "whatsapp", NoneV, NoneV, TRUE, NoneV, TRUE))
          => SESSIONS'[resp'.token].session_id = SESSIONS[x_token].session_id]_vars

(***************************************************************************)
(* Properties of the channels of a merged session.                         *)
(***************************************************************************)
\* C18: after a start-session with channel ch that resolves to an existing
\* session, the session's channel is ch, and its channel history holds ch
\* exactly once and every channel it held before the call (the history of the
\* cached session of the returned token, or of the backend's row when the
\* cache holds none); it is one entry longer exactly when ch was not in it.
C18_ChannelMerged ==
    [][\A phone \in OptPhones, tg \in OptChats, channel \in Channels,
          customer_id \in MergeCustomers :
          \A restored \in Restores(phone) :
             (/\ resp'.op = "start" /\ resp'.status = 200 /\ resp'.found # "new"
              /\ SessionStartWith(phone, tg, channel, NoneV, customer_id, restored,
                                  NoneV, TRUE))
             => LET before == MetadataChannels(IF resp'.token \in DOMAIN SESSIONS
                                               THEN SESSIONS[resp'.token]
                                               ELSE restored.session)
                    after == MetadataChannels(SESSIONS'[resp'.token])
                IN /\ SESSIONS'[resp'.token].channel = channel
                   /\ Cardinality({i \in DOMAIN after : after[i] = channel}) = 1
                   /\ \A i \in DOMAIN before : InSeq(before[i], after)
                   /\ Len(after) = IF InSeq(channel, before) THEN Len(before)
                                   ELSE Len(before) + 1]_vars


(***************************************************************************)
(* Properties of the requests without an identifier.                       *)
(***************************************************************************)
\* C19: a start-session with neither phone nor telegram_chat_id answers 400,
\* and so does a restore with neither X-Session-Token nor X-Phone; a start or
\* restore answering 400 creates no session and leaves the cache, the identity
\* maps and the table as they were.
C19_NoIdentifierRejected ==
    [][/\ SessionStart(NoneV, NoneV, "whatsapp", NoneV, NoneV, TRUE, NoneV, TRUE)
             => resp'.op = "start" /\ resp'.status = 400
       /\ SessionRestore(NoTok, NoneV, TRUE, TRUE)
             => resp'.op = "restore" /\ resp'.status = 400
       /\ ((resp'.op = "start" \/ resp'.op = "restore") /\ resp'.status = 400)
             => UNCHANGED <<SESSIONS, PHONE_SESSIONS, PHONE_SESSION_IDS,
                            PHONE_TO_CUSTOMER, TELEGRAM_SESSIONS, TELEGRAM_TO_PHONE,
                            durable, next_token, next_sid>>]_vars

\* C19's case: a request without an identifier was rejected while the cache
\* held a session of phone p1
C19_Rejected ==
    /\ (resp.op = "start" \/ resp.op = "restore") /\ resp.status = 400
    /\ PHONE_SESSIONS["p1"] \in DOMAIN SESSIONS

(***************************************************************************)
(* Properties of session_restore by token.                                 *)
(***************************************************************************)
\* C20: a restore by a token T the cache does not hold answers 200 with T
\* exactly when a phone hint p is given, the backend answers the lookup, and the
\* most recent active row of p is unexpired and carries T (when several active
\* rows of p are equally recent, the one the table answers with); the session
\* of that row is then cached under T and nothing else of the cache changes. In
\* every other case it answers 404 and the cache is as it was.
C20_RestoreByTokenWithHint ==
    [][\A x_token \in Tokens, x_phone \in OptPhones, get_ok \in BOOLEAN :
          (/\ x_token \notin DOMAIN SESSIONS
           /\ SessionRestore(x_token, x_phone, get_ok, TRUE))
          => LET recent == IF supabase_enabled /\ x_phone # NoneV /\ get_ok
                           THEN MostRecentActive(durable, x_phone) ELSE {}
                 rows == {t \in recent : /\ now <= durable[t].expires_at
                                          /\ durable[t].session_token = x_token}
             IN /\ (recent # {} /\ rows = recent) => resp'.status = 200
                /\ rows = {} => resp'.status = 404
                /\ IF resp'.status = 200
                   THEN /\ resp'.token = x_token
                        /\ DOMAIN SESSIONS' = DOMAIN SESSIONS \cup {x_token}
                        /\ SESSIONS'[x_token].phone = x_phone
                        /\ SESSIONS'[x_token].session_token = x_token
                        /\ \E t \in rows : SESSIONS'[x_token].data = durable[t].metadata
                        /\ \A t \in DOMAIN SESSIONS : SESSIONS'[t] = SESSIONS[t]
                   ELSE /\ resp'.status = 404
                        /\ SESSIONS' = SESSIONS /\ PHONE_SESSIONS' = PHONE_SESSIONS]_vars

\* C20's case: after a restart, the session of p1 was reloaded by its token with
\* the phone as a hint (a restore by phone would have written PHONE_SESSIONS)
C20_ReloadedByToken ==
    /\ resp.op = "restore" /\ resp.status = 200 /\ resp.found = "supabase"
    /\ resp.token \in DOMAIN SESSIONS
    /\ SESSIONS[resp.token].phone = "p1"
    /\ PHONE_SESSIONS["p1"] = NoTok

(***************************************************************************)
(* Properties of session_restore by phone.                                 *)
(***************************************************************************)
\* C21: a restore by X-Phone alone, for a phone the lookup map leads to no
\* cached session and that has no active unexpired row in the table, answers
\* 404 and adds nothing: SESSIONS, PHONE_SESSIONS and the table are as before.
C21_RestoreByPhoneNotFound ==
    [][\A x_phone \in Phones, get_ok \in BOOLEAN :
          (/\ PHONE_SESSIONS[x_phone] \notin DOMAIN SESSIONS
           /\ \A t \in DOMAIN durable :
                 ~(/\ durable[t].phone = x_phone /\ durable[t].status = "active"
                   /\ now <= durable[t].expires_at)
           /\ SessionRestore(NoTok, x_phone, get_ok, TRUE))
          => /\ resp'.op = "restore" /\ resp'.status = 404
             /\ UNCHANGED <<SESSIONS, PHONE_SESSIONS, durable>>]_vars

\* C21's case: a restore was answered 404 while the cache was empty and the
\* only row of p1 was logged out
C21_NotFound ==
    /\ resp.op = "restore" /\ resp.status = 404
    /\ SESSIONS = <<>>
    /\ DOMAIN durable = {1}
    /\ durable[1].phone = "p1" /\ durable[1].status = "logged_out"

(***************************************************************************)
(* Properties of auth_logout.                                              *)
(***************************************************************************)
\* C23: a successful logout with token T leaves no entry of the phone and
\* Telegram lookup maps pointing to T, and a start-session for the session's
\* phone that follows it returns a token other than T, the backend enabled or
\* not.
C23_LogoutRotatesToken ==
    [][/\ \A x_token \in DOMAIN SESSIONS :
             (AuthLogout(x_token) /\ SESSIONS[x_token].phone # NoneV)
             => /\ PHONE_SESSIONS'[SESSIONS[x_token].phone] # x_token
                /\ \A c \in Chats : TELEGRAM_SESSIONS'[c] = x_token
                                    => SESSIONS[x_token].telegram_chat_id # c
       /\ (/\ resp.op = "logout" /\ resp.status = 200
           /\ SESSIONS[resp.token].phone # NoneV
           /\ resp'.op = "start" /\ resp'.status = 200
           /\ SessionStart(SESSIONS[resp.token].phone, NoneV, "whatsapp", NoneV, NoneV,
                           TRUE, NoneV, TRUE))
          => resp'.token # resp.token]_vars

(***************************************************************************)
(* C26: after a successful end-session with the durable backend enabled    *)
(* and answering, the durable row of the ended session's token no longer   *)
(* has status active, whether the session was created in this process or   *)
(* restored from the backend (so that no later lookup of active rows can   *)
(* bring the ended token back once the cache is lost).                     *)
(***************************************************************************)
C26_EndDeactivatesRow ==
    [][\A x_token \in DOMAIN SESSIONS :
          (supabase_enabled /\ SessionEnd(x_token, TRUE))
          => (x_token \in DOMAIN durable' => durable'[x_token].status # "active")]_vars

(***************************************************************************)
(* C28: in every reachable state each entry phone -> token of              *)
(* PHONE_SESSIONS points to a token of SESSIONS whose session record has   *)
(* that same phone; hence no session is reached through two phone numbers. *)
(***************************************************************************)
C28_PhoneMapConsistent ==
    \A p \in Phones :
       PHONE_SESSIONS[p] # NoTok
       => /\ PHONE_SESSIONS[p] \in DOMAIN SESSIONS
          /\ SESSIONS[PHONE_SESSIONS[p]].phone = p

(***************************************************************************)
(* C27: entries leave recent only oldest-first. No step removes a viewed   *)
(* product from a session's recent list while an older view (one further   *)
(* down the most-recent-first list) is kept, and a view that is removed    *)
(* has been followed by at least RecentCap newer views, which the list     *)
(* still holds.                                                            *)
(***************************************************************************)
C27_RecentLeavesOldestFirst ==
    [][\A t \in DOMAIN SESSIONS :
          t \in DOMAIN SESSIONS'
          => LET old == SESSIONS[t].data.recent
                 new == SESSIONS'[t].data.recent
             IN \A i \in 1..Len(old) :
                   (old[i].kind = "view" /\ ~InSeq(old[i], new))
                   => /\ \A j \in (i + 1)..Len(old) :
                            old[j].kind = "view" => ~InSeq(old[j], new)
                      /\ Cardinality({k \in 1..Len(new) : new[k].kind = "view"})
                            >= RecentCap]_vars

(***************************************************************************)
(* The QR tokens: /auth/qr-init and /auth/qr-verify of session_manager and *)
(* generate_qr_token / verify_qr_token of auth_manager.                    *)
(***************************************************************************)
MaxQrTokens == 2      \* QR tokens generated in SpecQr

\* secrets.token_hex(32): a token no earlier call returned
FreshQrToken == Len(qr_log) + 1

\* generate_qr_token: QR_TOKEN_STORE[qr_token] = {phone, customer_id}
GenerateQrToken(store, qr_token, phone, customer_id) ==
    (qr_token :> [phone |-> phone, customer_id |-> customer_id]) @@ store

\* verify_qr_token with the del left out: the token stays in the store
VerifyQrTokenKept(store, qr_token) ==
    IF qr_token \notin DOMAIN store
    THEN [valid |-> FALSE, phone |-> NoneV, customer_id |-> NoneV, store |-> store]
    ELSE [valid |-> TRUE, phone |-> store[qr_token].phone,
          customer_id |-> store[qr_token].customer_id, store |-> store]

\* verify_qr_token: (False, None) for a token not in the store; otherwise
\* the token's phone and customer_id, and the token is deleted
VerifyQrToken(store, qr_token) ==
    IF qr_token \notin DOMAIN store
    THEN [valid |-> FALSE, phone |-> NoneV, customer_id |-> NoneV, store |-> store]
    ELSE [valid |-> TRUE, phone |-> store[qr_token].phone,
          customer_id |-> store[qr_token].customer_id,
          store |-> [t \in DOMAIN store \ {qr_token} |-> store[t]]]

\* POST /auth/qr-init with X-Session-Token and phone_number in the body
AuthQrInit(x_token, phone_number) ==
    IF x_token \notin DOMAIN SESSIONS \/ ~SESSIONS[x_token].is_active
    THEN /\ resp' = Resp("qr-init", 401, x_token, "none")
         /\ UNCHANGED <<SESSIONS, PHONE_SESSIONS, PHONE_SESSION_IDS, PHONE_TO_CUSTOMER,
                        TELEGRAM_SESSIONS, TELEGRAM_TO_PHONE, durable, supabase_enabled,
                        others, now, ticks, next_token, next_sid, first_sid>>
    ELSE LET session == SESSIONS[x_token]
             customer_id == IF session.customer_id # NoneV THEN session.customer_id
                            ELSE session.user_id
         IN IF customer_id = NoneV
            THEN /\ resp' = Resp("qr-init", 400, x_token, "none")
                 /\ UNCHANGED <<SESSIONS, PHONE_SESSIONS, PHONE_SESSION_IDS,
                                PHONE_TO_CUSTOMER, TELEGRAM_SESSIONS, TELEGRAM_TO_PHONE,
                                durable, supabase_enabled, others, now, ticks,
                                next_token, next_sid, first_sid>>
            ELSE /\ Len(qr_log) < MaxQrTokens
                 /\ QR_TOKEN_STORE' = GenerateQrToken(QR_TOKEN_STORE, FreshQrToken,
                                                      phone_number, customer_id)
                 /\ qr_log' = Append(qr_log, [phone |-> phone_number,
                                              customer_id |-> customer_id,
                                              session_phone |-> session.phone,
                                              verified |-> 0])
                 /\ resp' = Resp("qr-init", 200, x_token, "memory")
                 /\ UNCHANGED <<SESSIONS, PHONE_SESSIONS, PHONE_SESSION_IDS,
                                PHONE_TO_CUSTOMER, TELEGRAM_SESSIONS, TELEGRAM_TO_PHONE,
                                durable, supabase_enabled, now, ticks, next_token,
                                next_sid, first_sid, qr_resp, redisVars, timingVars>>

\* POST /auth/qr-verify: the token is verified (and consumed), the customer
\* record of its phone is read and create_session opens the session
AuthQrVerify(qr_token, channel, customer_record, get_ok, save_ok) ==
    LET v == VerifyQrToken(QR_TOKEN_STORE, qr_token) IN
    IF qr_token = 0
    THEN /\ resp' = Resp("qr-verify", 400, NoTok, "none")
         /\ UNCHANGED <<SESSIONS, PHONE_SESSIONS, PHONE_SESSION_IDS, PHONE_TO_CUSTOMER,
                        TELEGRAM_SESSIONS, TELEGRAM_TO_PHONE, durable, supabase_enabled,
                        others, now, ticks, next_token, next_sid, first_sid>>
    ELSE IF ~v.valid
    THEN /\ resp' = Resp("qr-verify", 401, NoTok, "none")
         /\ qr_resp' = QrResp(FALSE, qr_token, NoneV, NoneV)
         /\ UNCHANGED <<SESSIONS, PHONE_SESSIONS, PHONE_SESSION_IDS, PHONE_TO_CUSTOMER,
                        TELEGRAM_SESSIONS, TELEGRAM_TO_PHONE, durable, supabase_enabled,
                        now, ticks, next_token, next_sid, first_sid,
                        QR_TOKEN_STORE, qr_log, redisVars, timingVars>>
    ELSE \E restored \in RestoreSessionFromSupabase(durable, v.phone, get_ok) :
         LET R == CreateSession(v.phone, NoneV, channel, v.customer_id, v.customer_id,
                                customer_record, restored, NoneV, save_ok)
         IN /\ R.fits
            /\ QR_TOKEN_STORE' = v.store
            /\ qr_resp' = QrResp(TRUE, qr_token, v.phone, v.customer_id)
            /\ qr_log' = IF qr_token \in 1..Len(qr_log)
                         THEN [qr_log EXCEPT ![qr_token].verified = @ + 1]
                         ELSE qr_log
            /\ SESSIONS' = R.S
            /\ PHONE_TO_CUSTOMER' = R.P2C
            /\ Store(R)
            /\ resp' = Resp("qr-verify", 200, R.token, R.found)
            /\ UNCHANGED <<supabase_enabled, now, ticks, first_sid, redisVars,
                           timingVars>>

(***************************************************************************)
(* SpecQr: the QR login. Sessions of two phones are started and logged     *)
(* out, logged-in sessions request QR tokens for a phone number, a kiosk   *)
(* verifies QR tokens (generated, used or never generated), and the        *)
(* process restarts.                                                       *)
(***************************************************************************)
QrInputs == 0..(MaxQrTokens + 1)
\* get_customer_by_phone: no record, or the record of a customer
QrCustomerRecords == {NoProfile, Profile("cu2")}

NextQr ==
    \/ StartRequests({"p1"}, {NoneV}, {"whatsapp"}, {NoneV}, {TRUE}, {TRUE})
    \/ \E x_token \in NoTok..MaxTokens, phone_number \in Phones :
          AuthQrInit(x_token, phone_number)
    \/ \E qr_token \in QrInputs, channel \in {"kiosk"},
          customer_record \in QrCustomerRecords :
          AuthQrVerify(qr_token, channel, customer_record, TRUE, TRUE)
    \/ LogoutRequest
    \/ Restart

SpecQr == Init /\ [][NextQr]_vars

\* the step answers a /auth/qr-verify request that presented qr_token
AuthQrVerifyStep(qr_token) ==
    /\ resp'.op = "qr-verify" /\ resp'.status # 400
    /\ qr_resp'.qr_token = qr_token

C29_QrTokenBoundToSession ==
    [][/\ (resp'.op = "qr-init" /\ resp'.status = 200 /\ Len(qr_log') = Len(qr_log) + 1)
          => qr_log'[Len(qr_log')].phone = SESSIONS[resp'.token].phone
       /\ \A qr_token \in QrInputs :
             (AuthQrVerifyStep(qr_token) /\ qr_resp'.valid /\ qr_token \in 1..Len(qr_log))
             => SESSIONS'[resp'.token].phone = qr_log[qr_token].session_phone]_vars

(***************************************************************************)
(* The loyalty points (loyalty/redis_utils.py). deduct_points and          *)
(* add_points read the balance with GET and write the new one with SET;    *)
(* the callers run concurrently, so the two commands of one call may be    *)
(* separated by the commands of another.                                   *)
(***************************************************************************)
MaxCalls == 2         \* loyalty calls per caller in SpecLoyalty
PointAmounts == {3, 7}

\* get_user_points: the stored balance (0 when the key is missing)
GetUserPoints(stored) == stored

\* update_user_points: SET user:{user_id}:points new_points
UpdateUserPoints(stored, new_points) == new_points

\* deduct_points up to its return for insufficient points, or up to the
\* call of update_user_points
DeductPointsRead(c, points_to_deduct) ==
    /\ calls[c].pc = "idle" /\ calls[c].made < MaxCalls
    /\ LET current_points == GetUserPoints(points) IN
       calls' = [calls EXCEPT ![c] =
                    IF current_points < points_to_deduct
                    THEN [NoCall EXCEPT !.made = calls[c].made + 1]
                    ELSE [op |-> "deduct", pc |-> "update", amount |-> points_to_deduct,
                          current_points |-> current_points, made |-> calls[c].made + 1]]
    /\ UNCHANGED <<sessionVars, QR_TOKEN_STORE, qrGhosts, points, settled, fulfillment,
                   status_index, timingVars>>

\* add_points up to the call of update_user_points
AddPointsRead(c, points_to_add) ==
    /\ calls[c].pc = "idle" /\ calls[c].made < MaxCalls
    /\ calls' = [calls EXCEPT ![c] =
                    [op |-> "add", pc |-> "update", amount |-> points_to_add,
                     current_points |-> GetUserPoints(points),
                     made |-> calls[c].made + 1]]
    /\ UNCHANGED <<sessionVars, QR_TOKEN_STORE, qrGhosts, points, settled, fulfillment,
                   status_index, timingVars>>

\* the rest of deduct_points and add_points: update_user_points(new_points)
\* and the return of success
PointsUpdate(c) ==
    /\ calls[c].pc = "update"
    /\ LET new_points == IF calls[c].op = "deduct"
                         THEN calls[c].current_points - calls[c].amount
                         ELSE calls[c].current_points + calls[c].amount
       IN points' = UpdateUserPoints(points, new_points)
    /\ settled' = IF calls[c].op = "deduct" THEN settled - calls[c].amount
                  ELSE settled + calls[c].amount
    /\ calls' = [calls EXCEPT ![c] = [NoCall EXCEPT !.made = calls[c].made]]
    /\ UNCHANGED <<sessionVars, QR_TOKEN_STORE, qrGhosts, fulfillment, status_index,
                   timingVars>>

NextLoyalty ==
    \/ \E c \in Callers, points_to_deduct \in PointAmounts :
          DeductPointsRead(c, points_to_deduct)
    \/ \E c \in Callers, points_to_add \in PointAmounts : AddPointsRead(c, points_to_add)
    \/ \E c \in Callers : PointsUpdate(c)

SpecLoyalty == Init /\ [][NextLoyalty]_vars

(***************************************************************************)
(* C25: deduct_points is atomic. Under every interleaving of concurrent    *)
(* deduct_points and add_points calls for one user the stored balance is   *)
(* never negative, and when no call is in progress it equals the initial   *)
(* balance plus the points added minus the deductions that reported        *)
(* success: no update is lost.                                             *)
(***************************************************************************)
C25_DeductPointsAtomic ==
    /\ points >= 0
    /\ (\A c \in Callers : calls[c].pc = "idle") => points = InitialPoints + settled

(***************************************************************************)
(* The fulfillment records (fulfillment/redis_utils.py): the hash          *)
(* fulfillment:{order_id}, kept as its current_status, and the status      *)
(* index sets fulfillment:orders:status:{status}.                          *)
(***************************************************************************)
\* store_fulfillment with current_status in fulfillment_data: hset of the
\* record, sadd to the index of its status
StoreFulfillment(order_id, status) ==
    /\ fulfillment' = [fulfillment EXCEPT ![order_id] = status]
    /\ status_index' = [status_index EXCEPT ![status] = @ \cup {order_id}]
    /\ UNCHANGED <<sessionVars, QR_TOKEN_STORE, qrGhosts, points, calls, settled,
                   timingVars>>

\* update_fulfillment_status: hset current_status = new_status, then
\* old_status = hget current_status, srem from its index, sadd to the new one
UpdateFulfillmentStatus(order_id, new_status) ==
    LET written == [fulfillment EXCEPT ![order_id] = new_status]
        old_status == written[order_id]
        removed == [status_index EXCEPT ![old_status] = @ \ {order_id}]
    IN /\ fulfillment' = written
       /\ status_index' = [removed EXCEPT ![new_status] = @ \cup {order_id}]
       /\ UNCHANGED <<sessionVars, QR_TOKEN_STORE, qrGhosts, points, calls, settled,
                      timingVars>>

\* delete_fulfillment: srem from the index of the record's current_status,
\* delete of the record
DeleteFulfillment(order_id) ==
    /\ status_index' = IF fulfillment[order_id] # NoStatus
                       THEN [status_index EXCEPT ![fulfillment[order_id]] = @ \ {order_id}]
                       ELSE status_index
    /\ fulfillment' = [fulfillment EXCEPT ![order_id] = NoStatus]
    /\ UNCHANGED <<sessionVars, QR_TOKEN_STORE, qrGhosts, points, calls, settled,
                   timingVars>>

NextFulfillment ==
    \/ \E order_id \in Orders, status \in Statuses :
          /\ fulfillment[order_id] = NoStatus
          /\ StoreFulfillment(order_id, status)
    \/ \E order_id \in Orders, new_status \in Statuses :
          UpdateFulfillmentStatus(order_id, new_status)
    \/ \E order_id \in Orders : DeleteFulfillment(order_id)

SpecFulfillment == Init /\ [][NextFulfillment]_vars

(***************************************************************************)
(* C30: the status indexes agree with the records. In every state an       *)
(* existing order is a member of exactly one status index set, the one of  *)
(* its current_status, and a deleted (or never stored) order is a member   *)
(* of none.                                                                *)
(***************************************************************************)
C30_StatusIndexConsistent ==
    \A order_id \in Orders, status \in Statuses :
       order_id \in status_index[status] <=> fulfillment[order_id] = status

(***************************************************************************)
(* The order of a handler's steps. session_start, session_update,          *)
(* session_restore and session_end are coroutines without an await: the    *)
(* local change, each call of a Supabase helper (requests.get / post /     *)
(* patch with timeout=5, which returns or raises before the next statement *)
(* runs) and the return of the response follow one another, one request    *)
(* at a time.                                                              *)
(***************************************************************************)
MaxRequests == 2      \* requests served in SpecTiming
HandlerOps == {"start", "update", "restore", "end"}
BackendOutcomes == {"completed", "failed", "timeout"}
CallCounts == 0..2

\* the Supabase calls one request may make: start 0 (found in memory),
\* 1 (lookup) or 2 (lookup and save); update 1 (expiry) or 2 (metadata and
\* expiry); restore 0 (in memory) or 1 (lookup); end 1 (soft delete); none
\* when Supabase is disabled
BackendCalls(op) ==
    IF ~supabase_enabled THEN {0}
    ELSE IF op = "start" THEN CallCounts
    ELSE IF op = "update" THEN 1..2
    ELSE IF op = "restore" THEN 0..1
    ELSE {1}

Event(request, op, kind) == [request |-> request, op |-> op, kind |-> kind]

\* the requests received so far
Received == Cardinality({i \in 1..Len(events) : events[i].kind = "received"})

\* the handler is entered and makes its change to the in-process stores
HandlerReceives(op, n_calls) ==
    /\ handler.pc = "idle" /\ Received < MaxRequests
    /\ n_calls \in BackendCalls(op)
    /\ handler' = [op |-> op, pc |-> IF n_calls > 0 THEN "call" ELSE "return",
                   backend_calls |-> n_calls]
    /\ events' = Append(events, Event(Received + 1, op, "received"))
    /\ UNCHANGED <<sessionVars, QR_TOKEN_STORE, qrGhosts, redisVars>>

\* the handler calls a Supabase helper, which sends its HTTP request
BackendCallIssued ==
    /\ handler.pc = "call"
    /\ handler' = [handler EXCEPT !.pc = "wait"]
    /\ events' = Append(events, Event(Received, handler.op, "issued"))
    /\ UNCHANGED <<sessionVars, QR_TOKEN_STORE, qrGhosts, redisVars>>

\* the HTTP request returns, fails or times out and the helper returns
BackendCallReturns(outcome) ==
    /\ handler.pc = "wait"
    /\ handler' = [handler EXCEPT !.backend_calls = @ - 1,
                                  !.pc = IF handler.backend_calls > 1 THEN "call"
                                         ELSE "return"]
    /\ events' = Append(events, Event(Received, handler.op, outcome))
    /\ UNCHANGED <<sessionVars, QR_TOKEN_STORE, qrGhosts, redisVars>>

\* return JSONResponse(...)
HandlerResponds ==
    /\ handler.pc = "return"
    /\ handler' = NoRequest
    /\ events' = Append(events, Event(Received, handler.op, "responded"))
    /\ UNCHANGED <<sessionVars, QR_TOKEN_STORE, qrGhosts, redisVars>>

NextTiming ==
    \/ \E op \in HandlerOps, n_calls \in CallCounts : HandlerReceives(op, n_calls)
    \/ BackendCallIssued
    \/ \E outcome \in BackendOutcomes : BackendCallReturns(outcome)
    \/ HandlerResponds

SpecTiming == Init /\ [][NextTiming]_vars

(***************************************************************************)
(* C22: the response to start-session, update, restore and end does not    *)
(* wait for the durable-backend calls of its request: in no execution does *)
(* the response of a request come after the completion, failure or timeout *)
(* of a backend call that request issued.                                  *)
(***************************************************************************)
C22_ResponseDoesNotWait ==
    \A i \in 1..Len(events) :
       events[i].kind = "responded"
       => ~\E j \in 1..(i - 1) :
              /\ events[j].request = events[i].request
              /\ events[j].kind \in BackendOutcomes
====
